---- MODULE Spec2Model ----
(***************************************************************************)
(* Model of the media-analysis pipeline of deepguard-media-shield:         *)
(* MediaService (src/src/lib/mediaService.ts) and the reality-defender     *)
(* edge function (src/unnamed/part_009).                                   *)
(*                                                                         *)
(* Numbers.  A JavaScript number x is the integer x * Unit, so 0.92 is     *)
(* 92000 and 92.00 is 9200000.  toFixed(2) rounds to a multiple of Cent.   *)
(* JavaScript values are records [t, n, s, a]: the type tag, the number,   *)
(* the string (a sequence of characters) and the array.                    *)
(***************************************************************************)
EXTENDS Integers, Sequences, FiniteSets, TLC

Unit == 10^5
Cent == Unit \div 100

JS(t, n, s, a) == [t |-> t, n |-> n, s |-> s, a |-> a]
Undefined == JS("undefined", 0, <<>>, <<>>)
Null == JS("null", 0, <<>>, <<>>)
NaN == JS("nan", 0, <<>>, <<>>)
Num(n) == JS("number", n, <<>>, <<>>)
Str(s) == JS("string", 0, s, <<>>)
Arr(a) == JS("array", 0, <<>>, a)

\* v !== undefined
Defined(v) == v.t # "undefined"

\* JavaScript truthiness of a value
Truthy(v) ==
    CASE v.t = "number" -> v.n # 0
      [] v.t = "string" -> Len(v.s) > 0
      [] v.t = "array" -> TRUE
      [] OTHER -> FALSE

\* ToNumber, as applied by the operators * and <= : null is 0, the empty
\* string is 0, every other string used here is not numeric.
ToNumber(v) ==
    CASE v.t = "number" -> v
      [] v.t = "null" -> Num(0)
      [] v.t = "string" /\ Len(v.s) = 0 -> Num(0)
      [] OTHER -> NaN

\* v * 100
Times100(v) ==
    LET x == ToNumber(v) IN IF x.t = "number" THEN Num(x.n * 100) ELSE NaN

\* 100 - v * 100
Minus100(v) ==
    LET x == Times100(v) IN IF x.t = "number" THEN Num(100 * Unit - x.n) ELSE NaN

\* v <= 1
AtMostOne(v) ==
    LET x == ToNumber(v) IN x.t = "number" /\ x.n <= Unit

\* nearest multiple of Cent, ties away from zero (Number.prototype.toFixed)
Round2(n) ==
    IF n >= 0 THEN ((n + Cent \div 2) \div Cent) * Cent
              ELSE 0 - (((0 - n) + Cent \div 2) \div Cent) * Cent

\* parseFloat(x.toFixed(2)) for a number or NaN x
ToFixed2(x) == IF x.t = "number" THEN Num(Round2(x.n)) ELSE NaN

\* Math.max(0, Math.min(100, x)); NaN propagates
Clamp(x) ==
    IF x.t # "number" THEN NaN
    ELSE IF x.n > 100 * Unit THEN Num(100 * Unit)
    ELSE IF x.n < 0 THEN Num(0)
    ELSE x

\* x >= k and x > k for a JavaScript number x and an integer k; false on NaN
AtLeast(x, k) == x.t = "number" /\ x.n >= k * Unit
Above(x, k) == x.t = "number" /\ x.n > k * Unit
Below(x, k) == x.t = "number" /\ x.n < k * Unit

(***************************************************************************)
(* Strings: sequences of one-character strings.                            *)
(***************************************************************************)
UpperCase == <<"A", "C", "D", "E", "F", "G", "H", "I", "K", "L", "M", "N", "O", "P", "R", "S", "T", "U">>
LowerCase == <<"a", "c", "d", "e", "f", "g", "h", "i", "k", "l", "m", "n", "o", "p", "r", "s", "t", "u">>

LowerChar(c) ==
    IF \E i \in 1..Len(UpperCase) : UpperCase[i] = c
    THEN LowerCase[CHOOSE i \in 1..Len(UpperCase) : UpperCase[i] = c]
    ELSE c

\* String.prototype.toLowerCase
toLowerCase(s) == [i \in 1..Len(s) |-> LowerChar(s[i])]

\* String.prototype.includes
includes(s, w) ==
    \E i \in 1..(Len(s) - Len(w) + 1) : SubSeq(s, i, i + Len(w) - 1) = w

W_real == <<"r", "e", "a", "l">>
W_authentic == <<"a", "u", "t", "h", "e", "n", "t", "i", "c">>
W_genuine == <<"g", "e", "n", "u", "i", "n", "e">>
W_fake == <<"f", "a", "k", "e">>
W_deepfake == <<"d", "e", "e", "p", "f", "a", "k", "e">>
W_manipulated == <<"m", "a", "n", "i", "p", "u", "l", "a", "t", "e", "d">>

(***************************************************************************)
(* Provider payloads.  A payload is the JSON value handed to a normalizer: *)
(* its kind, its own fields, and the nested objects under the keys         *)
(* `response` (read by MediaService) and `result` (read by the edge        *)
(* function).  An absent field reads as undefined.                         *)
(***************************************************************************)
MSConfidenceKeys == {"confidence", "authenticityScore", "score", "fakeProbability", "realProbability"}
MSSubScoreKeys == {"faceManipulation", "backgroundManipulation", "lightingInconsistencies", "compressionArtifacts"}
EdgeConfidenceKeys == {"confidence", "authenticity_score", "score", "fake_probability", "real_probability",
                       "manipulation_score", "probability", "authenticity"}
EdgeSubScoreKeys == {"face_manipulation", "background_manipulation", "lighting_inconsistencies", "compression_artifacts"}
TextKeys == {"classification", "status"}
MSKeys == MSConfidenceKeys \cup MSSubScoreKeys \cup {"classification", "regions"}
EdgeKeys == EdgeConfidenceKeys \cup EdgeSubScoreKeys \cup TextKeys \cup {"regions"}

\* the fields of an object that has none of the keys K
NoFields(K) == [k \in K |-> Undefined]
NoObject(K) == [some |-> FALSE, f |-> NoFields(K)]
SomeObject(f) == [some |-> TRUE, f |-> f]

Payload(kind, f, response, result) == [kind |-> kind, f |-> f, response |-> response, result |-> result]
PrimitivePayload(kind) == Payload(kind, NoFields(MSKeys), NoObject(MSKeys), NoObject(EdgeKeys))

\* !result, for the payload kinds
Falsy(p) == p.kind \in {"null", "undefined", "zero", "emptystring"}
\* property access on null or undefined raises a TypeError
Nullish(p) == p.kind \in {"null", "undefined"}

Threw(msg) == [threw |-> TRUE, error |-> msg]
JsonNull == [null |-> TRUE]

Region(x, y, w, h, c, type) ==
    [x |-> x, y |-> y, width |-> w, height |-> h, confidence |-> c, type |-> type]

(***************************************************************************)
(* MediaService: the response normalizer.                                  *)
(***************************************************************************)
AUTHENTIC_THRESHOLD == 75
SUSPICIOUS_THRESHOLD == 40

\* mediaService.ts 486-493
ThresholdClassification_strict(c) ==
    IF Above(c, AUTHENTIC_THRESHOLD) THEN "authentic"
    ELSE IF Above(c, SUSPICIOUS_THRESHOLD) THEN "suspicious"
    ELSE "deepfake"

ThresholdClassification(c) ==
    IF AtLeast(c, AUTHENTIC_THRESHOLD) THEN "authentic"
    ELSE IF AtLeast(c, SUSPICIOUS_THRESHOLD) THEN "suspicious"
    ELSE "deepfake"

\* the score assigned to a direct classification string, mediaService.ts 467-477
DirectClassificationScore(text) ==
    LET d == toLowerCase(text) IN
    IF includes(d, W_real) \/ includes(d, W_authentic) \/ includes(d, W_genuine) THEN Num(85 * Unit)
    ELSE IF includes(d, W_fake) \/ includes(d, W_deepfake) \/ includes(d, W_manipulated) THEN Num(25 * Unit)
    ELSE Num(60 * Unit)

\* mediaService.ts 446-479: the if / else-if chain over the fields of the
\* payload.  A record [threw, c]: the extracted confidence or a TypeError.
ExtractConfidence(f) ==
    IF Defined(f.confidence) THEN [threw |-> FALSE, c |-> ToFixed2(Times100(f.confidence))]
    ELSE IF Defined(f.authenticityScore) THEN [threw |-> FALSE, c |-> ToFixed2(Times100(f.authenticityScore))]
    ELSE IF Defined(f.score) THEN
        IF AtMostOne(f.score) THEN [threw |-> FALSE, c |-> ToFixed2(Times100(f.score))]
        ELSE IF f.score.t = "number" THEN [threw |-> FALSE, c |-> ToFixed2(f.score)]
        ELSE [threw |-> TRUE, c |-> NaN]
    ELSE IF Defined(f.fakeProbability) THEN [threw |-> FALSE, c |-> ToFixed2(Minus100(f.fakeProbability))]
    ELSE IF Defined(f.realProbability) THEN [threw |-> FALSE, c |-> ToFixed2(Times100(f.realProbability))]
    ELSE IF Defined(f.classification) THEN
        IF f.classification.t = "string"
        THEN [threw |-> FALSE, c |-> DirectClassificationScore(f.classification.s)]
        ELSE [threw |-> TRUE, c |-> NaN]
    ELSE [threw |-> FALSE, c |-> Num(50 * Unit)]

\* result.response || result
ResultData(p) == IF p.response.some THEN p.response.f ELSE p.f

generateHeatmapData_reversed(p, confidenceScore) ==
    LET resultData == ResultData(p)
        a == resultData.regions.a
    IN IF ~Falsy(p) /\ Truthy(resultData.regions) /\ resultData.regions.t = "array"
       THEN [regions |-> [i \in 1..Len(a) |-> a[Len(a) + 1 - i]],
             confidence_threshold |-> 7 * (Unit \div 10), api_generated |-> TRUE]
       ELSE [regions |-> << Region(20 * Cent, 30 * Cent, 10 * Cent, 10 * Cent, confidenceScore, "face_region") >>,
             confidence_threshold |-> 7 * (Unit \div 10), generated |-> TRUE]

\* mediaService.ts 512-537; called with a payload that is not null/undefined
generateHeatmapData(p, confidenceScore) ==
    LET resultData == ResultData(p) IN
    IF ~Falsy(p) /\ Truthy(resultData.regions) /\ resultData.regions.t = "array"
    THEN [regions |-> resultData.regions.a, confidence_threshold |-> 7 * (Unit \div 10), api_generated |-> TRUE]
    ELSE [regions |-> << Region(20 * Cent, 30 * Cent, 10 * Cent, 10 * Cent, confidenceScore, "face_region"),
                         Region(60 * Cent, 40 * Cent, 15 * Cent, 12 * Cent,
                                IF confidenceScore.t = "number" THEN Num((confidenceScore.n * 8) \div 10) ELSE NaN,
                                "background"),
                         Region(10 * Cent, 70 * Cent, 8 * Cent, 8 * Cent,
                                IF confidenceScore.t = "number" THEN Num((confidenceScore.n * 9) \div 10) ELSE NaN,
                                "lighting") >>,
          confidence_threshold |-> 7 * (Unit \div 10), generated |-> TRUE]

\* parseFloat((v * 100).toFixed(2)) when the sub-score is present, else the initial 0
SubScore(v) == IF Defined(v) THEN ToFixed2(Times100(v)) ELSE Num(0)

\* scores.filter(score => score > 0)
ValidScores(scores) == SelectSeq(scores, LAMBDA x : Above(x, 0))

RECURSIVE SumScores(_)
SumScores(scores) == IF scores = <<>> THEN 0 ELSE Head(scores).n + SumScores(Tail(scores))

\* parseFloat((sum / length).toFixed(2)) for a non-empty list of positive scores
MeanScore(valid) ==
    LET sum == SumScores(valid)
        len == Len(valid)
    IN Num(((2 * sum + len * Cent) \div (2 * len * Cent)) * Cent)

\* the details object of lines 543-584, from the four extracted sub-scores
ManipulationDetails(face, background, lighting, compression) ==
    LET valid == ValidScores(<<face, background, lighting, compression>>) IN
    [overall_score |-> IF Len(valid) > 0 THEN MeanScore(valid) ELSE Num(0),
     face_manipulation |-> face,
     background_manipulation |-> background,
     lighting_inconsistencies |-> lighting,
     compression_artifacts |-> compression]

\* mediaService.ts 540-585
extractManipulationDetails(p) ==
    IF Falsy(p) THEN JsonNull
    ELSE LET resultData == ResultData(p) IN
         ManipulationDetails(SubScore(resultData.faceManipulation),
                             SubScore(resultData.backgroundManipulation),
                             SubScore(resultData.lightingInconsistencies),
                             SubScore(resultData.compressionArtifacts))

\* mediaService.ts 432-509
parseRealityDefenderResponse(p) ==
    LET isObject == p.kind = "object"
        extracted == IF isObject THEN ExtractConfidence(p.f) ELSE [threw |-> FALSE, c |-> Num(50 * Unit)]
        confidenceScore == IF isObject THEN Clamp(extracted.c) ELSE extracted.c
    IN IF extracted.threw THEN Threw("TypeError")
       ELSE IF Nullish(p) THEN Threw("TypeError")
       ELSE [threw |-> FALSE,
             confidence_score |-> confidenceScore,
             classification |-> ThresholdClassification(confidenceScore),
             heatmap_data |-> generateHeatmapData(p, confidenceScore),
             manipulation_details |-> extractManipulationDetails(p)]

(***************************************************************************)
(* Edge function reality-defender-analyze (second revision): normalizer.   *)
(***************************************************************************)
\* x <= 1 ? x * 100 : x, then parseFloat(toFixed(2)); a TypeError when the
\* value is above 1 or not comparable and has no toFixed method
AutoScale(v) ==
    IF AtMostOne(v) THEN [threw |-> FALSE, c |-> ToFixed2(Times100(v))]
    ELSE IF v.t = "number" THEN [threw |-> FALSE, c |-> ToFixed2(v)]
    ELSE [threw |-> TRUE, c |-> NaN]

\* part_009 598-627: the if / else-if chain before the classification branch
Edge_ExtractConfidence(f) ==
    IF Defined(f.confidence) THEN [threw |-> FALSE, c |-> ToFixed2(Times100(f.confidence))]
    ELSE IF Defined(f.authenticity_score) THEN [threw |-> FALSE, c |-> ToFixed2(Times100(f.authenticity_score))]
    ELSE IF Defined(f.score) THEN AutoScale(f.score)
    ELSE IF Defined(f.fake_probability) THEN [threw |-> FALSE, c |-> ToFixed2(Minus100(f.fake_probability))]
    ELSE IF Defined(f.real_probability) THEN [threw |-> FALSE, c |-> ToFixed2(Times100(f.real_probability))]
    ELSE IF Defined(f.manipulation_score) THEN [threw |-> FALSE, c |-> ToFixed2(Minus100(f.manipulation_score))]
    ELSE [threw |-> FALSE, c |-> Num(50 * Unit)]

\* part_009 628: the chain reaches the classification branch
Edge_DirectBranch(f) ==
    /\ \A k \in {"confidence", "authenticity_score", "score", "fake_probability",
                 "real_probability", "manipulation_score"} : ~Defined(f[k])
    /\ Defined(f.classification)

\* part_009 631-640
Edge_DirectClassification(text) ==
    LET d == toLowerCase(text) IN
    IF includes(d, W_real) \/ includes(d, W_authentic) \/ includes(d, W_genuine) THEN "authentic"
    ELSE IF includes(d, W_fake) \/ includes(d, W_deepfake) \/ includes(d, W_manipulated) THEN "deepfake"
    ELSE "suspicious"

\* part_009 651-669: probability, then authenticity, each overwriting the
\* confidence extracted so far
Edge_AdditionalFields(f, sofar) ==
    LET afterProbability == IF Defined(f.probability) THEN AutoScale(f.probability) ELSE sofar
    IN IF afterProbability.threw THEN afterProbability
       ELSE IF Defined(f.authenticity) THEN AutoScale(f.authenticity)
       ELSE afterProbability

\* part_009 672-682: which vocabulary a truthy status string matches
Edge_StatusVerdict(text) ==
    LET status == toLowerCase(text) IN
    IF includes(status, W_authentic) \/ includes(status, W_real) \/ includes(status, W_genuine) THEN "authentic"
    ELSE IF includes(status, W_manipulated) \/ includes(status, W_fake) \/ includes(status, W_deepfake) THEN "deepfake"
    ELSE "none"

\* part_009 672-682: the confidence after the status check; a truthy status
\* that is not a string has no toLowerCase method
Edge_StatusAdjust(f, c) ==
    IF ~Truthy(f.status) THEN [threw |-> FALSE, c |-> c]
    ELSE IF f.status.t # "string" THEN [threw |-> TRUE, c |-> NaN]
    ELSE LET verdict == Edge_StatusVerdict(f.status.s) IN
         IF verdict = "authentic" /\ Below(c, 80) THEN [threw |-> FALSE, c |-> Num(85 * Unit)]
         ELSE IF verdict = "deepfake" /\ Above(c, 30) THEN [threw |-> FALSE, c |-> Num(25 * Unit)]
         ELSE [threw |-> FALSE, c |-> c]

\* Math.max(0, 100 - v * 100)
InvertedSubScore(v) ==
    LET x == Minus100(v) IN
    IF x.t # "number" THEN NaN ELSE IF x.n < 0 THEN Num(0) ELSE x

ScoreRegion(x, y, w, h, v, type) ==
    [x |-> x, y |-> y, width |-> w, height |-> h, confidence |-> InvertedSubScore(v),
     type |-> type, manipulation_score |-> Times100(v)]

\* part_009 714-787; called with a payload that is not null/undefined
Edge_generateHeatmapData(p, confidenceScore) ==
    LET f == p.result.f
        scoreRegions ==
            (IF Defined(f.face_manipulation)
             THEN <<ScoreRegion(30 * Cent, 20 * Cent, 40 * Cent, 40 * Cent, f.face_manipulation, "face_region")>>
             ELSE <<>>)
            \o (IF Defined(f.background_manipulation)
                THEN <<ScoreRegion(10 * Cent, 10 * Cent, 80 * Cent, 80 * Cent, f.background_manipulation, "background")>>
                ELSE <<>>)
            \o (IF Defined(f.lighting_inconsistencies)
                THEN <<ScoreRegion(20 * Cent, 30 * Cent, 60 * Cent, 40 * Cent, f.lighting_inconsistencies, "lighting")>>
                ELSE <<>>)
    IN IF p.result.some /\ Truthy(f.regions) /\ f.regions.t = "array"
       THEN [regions |-> f.regions.a, confidence_threshold |-> 7 * (Unit \div 10), api_generated |-> TRUE]
       ELSE IF p.result.some /\ Len(scoreRegions) > 0
       THEN [regions |-> scoreRegions, confidence_threshold |-> 7 * (Unit \div 10), generated |-> TRUE,
             based_on_manipulation_scores |-> TRUE]
       ELSE [regions |-> << [x |-> 30 * Cent, y |-> 20 * Cent, width |-> 40 * Cent, height |-> 40 * Cent,
                             confidence |-> confidenceScore, type |-> "face_region",
                             note |-> "synthetic_region"] >>,
             confidence_threshold |-> 7 * (Unit \div 10), generated |-> TRUE, synthetic |-> TRUE,
             warning |-> "Using synthetic heatmap data - RealityDefender did not provide specific regions"]

\* part_009 789-829
Edge_extractManipulationDetails(p) ==
    IF ~p.result.some THEN JsonNull
    ELSE LET f == p.result.f IN
         ManipulationDetails(SubScore(f.face_manipulation),
                             SubScore(f.background_manipulation),
                             SubScore(f.lighting_inconsistencies),
                             SubScore(f.compression_artifacts))

\* part_009 585-712
Edge_parseRealityDefenderResponse(p) ==
    IF Nullish(p) THEN Threw("TypeError")
    ELSE IF ~p.result.some THEN
        [threw |-> FALSE, confidence_score |-> Num(50 * Unit),
         classification |-> ThresholdClassification(Num(50 * Unit)),
         heatmap_data |-> Edge_generateHeatmapData(p, Num(50 * Unit)),
         manipulation_details |-> Edge_extractManipulationDetails(p)]
    ELSE LET f == p.result.f IN
        IF Edge_DirectBranch(f) THEN
            IF f.classification.t # "string" THEN Threw("TypeError")
            ELSE LET c == DirectClassificationScore(f.classification.s) IN
                 [threw |-> FALSE, confidence_score |-> c,
                  classification |-> Edge_DirectClassification(f.classification.s),
                  heatmap_data |-> Edge_generateHeatmapData(p, c),
                  manipulation_details |-> Edge_extractManipulationDetails(p)]
        ELSE LET chain == Edge_ExtractConfidence(f)
                 added == IF chain.threw THEN chain ELSE Edge_AdditionalFields(f, chain)
                 adjusted == IF added.threw THEN added ELSE Edge_StatusAdjust(f, added.c)
                 confidenceScore == Clamp(adjusted.c)
             IN IF adjusted.threw THEN Threw("TypeError")
                ELSE [threw |-> FALSE, confidence_score |-> confidenceScore,
                      classification |-> ThresholdClassification(confidenceScore),
                      heatmap_data |-> Edge_generateHeatmapData(p, confidenceScore),
                      manipulation_details |-> Edge_extractManipulationDetails(p)]

(***************************************************************************)
(* Edge function reality-defender-analyze (first revision): normalizer.    *)
(***************************************************************************)
\* part_009 213-223: the if / else-if chain; no scaling test and no clamp
EdgeV1_ExtractConfidence(f) ==
    IF Defined(f.confidence) THEN ToFixed2(Times100(f.confidence))
    ELSE IF Defined(f.authenticity_score) THEN ToFixed2(Times100(f.authenticity_score))
    ELSE IF Defined(f.fake_probability) THEN ToFixed2(Minus100(f.fake_probability))
    ELSE IF Defined(f.score) THEN ToFixed2(Times100(f.score))
    ELSE IF Defined(f.manipulation_score) THEN ToFixed2(Minus100(f.manipulation_score))
    ELSE Num(50 * Unit)

\* part_009 226-233
EdgeV1_Classification(c) ==
    IF AtLeast(c, 85) THEN "authentic"
    ELSE IF AtLeast(c, 60) THEN "suspicious"
    ELSE "deepfake"

\* part_009 250-272; called with a payload that is not null/undefined.  The
\* score is a multiple of Cent, so dividing by 10 first is exact
EdgeV1_generateHeatmapData(p, confidenceScore) ==
    LET f == p.result.f IN
    IF p.result.some /\ Truthy(f.regions) /\ f.regions.t = "array"
    THEN [regions |-> f.regions.a, confidence_threshold |-> 7 * (Unit \div 10), api_generated |-> TRUE]
    ELSE [regions |-> << Region(20 * Cent, 30 * Cent, 10 * Cent, 10 * Cent, confidenceScore, "face_region"),
                         Region(60 * Cent, 40 * Cent, 15 * Cent, 12 * Cent,
                                IF confidenceScore.t = "number" THEN Num((confidenceScore.n \div 10) * 8) ELSE NaN,
                                "background"),
                         Region(10 * Cent, 70 * Cent, 8 * Cent, 8 * Cent,
                                IF confidenceScore.t = "number" THEN Num((confidenceScore.n \div 10) * 9) ELSE NaN,
                                "lighting") >>,
          confidence_threshold |-> 7 * (Unit \div 10), generated |-> TRUE]

\* part_009 206-248; extractManipulationDetails (274-314) is the same
\* function as in the second revision
EdgeV1_parseRealityDefenderResponse(p) ==
    IF Nullish(p) THEN Threw("TypeError")
    ELSE LET confidenceScore == IF p.result.some THEN EdgeV1_ExtractConfidence(p.result.f)
                                ELSE Num(50 * Unit)
         IN [threw |-> FALSE, confidence_score |-> confidenceScore,
             classification |-> EdgeV1_Classification(confidenceScore),
             heatmap_data |-> EdgeV1_generateHeatmapData(p, confidenceScore),
             manipulation_details |-> Edge_extractManipulationDetails(p)]

(***************************************************************************)
(* Default and fallback results.  Math.random() is a choice r, 0 <= r < 1. *)
(***************************************************************************)
\* mediaService.ts 420-429
createDefaultResult(classification, confidence, reason) ==
    [confidence_score |-> Times100(confidence),
     classification |-> classification,
     heatmap_data |-> JsonNull,
     processing_time_ms |-> 0,
     error |-> reason]

\* Math.random() * 30 + 70
FallbackConfidence(r) == Num(r * 30 + 70 * Unit)

\* confidenceScore > 85 ? 'authentic' : 'suspicious'
FallbackClassification(c) == IF Above(c, 85) THEN "authentic" ELSE "suspicious"

\* mediaService.ts 587-612; elapsed is Date.now() - startTime
getFallbackAnalysis(elapsed, errorMessage, r) ==
    [confidence_score |-> ToFixed2(FallbackConfidence(r)),
     classification |-> FallbackClassification(FallbackConfidence(r)),
     processing_time_ms |-> elapsed,
     heatmap_data |-> [message |-> "API failed, using conservative fallback analysis",
                       error |-> IF errorMessage = "" THEN "Unknown error" ELSE errorMessage,
                       fallback |-> TRUE,
                       warning |-> "This is a fallback analysis due to API failure. Results may not be accurate."]]

\* Math.floor(Math.random() * k) + base
RandomInt(r, k, base) == (r * k) \div Unit + base

\* part_009 831-861; rnd are the seven values of Math.random() in call order
Edge_generateFallbackAnalysis(errorMessage, rnd) ==
    [confidence_score |-> ToFixed2(FallbackConfidence(rnd[1])),
     classification |-> FallbackClassification(FallbackConfidence(rnd[1])),
     processing_time_ms |-> RandomInt(rnd[2], 3000, 1000),
     heatmap_data |-> [message |-> "API unavailable, using conservative fallback analysis",
                       error |-> errorMessage,
                       fallback |-> TRUE,
                       warning |-> "This is a fallback analysis due to API failure. Results may not be accurate.",
                       regions |-> << Region(20 * Cent, 30 * Cent, 10 * Cent, 10 * Cent,
                                             FallbackConfidence(rnd[1]), "fallback") >>],
     api_provider |-> "Fallback Analysis (API Failed)",
     manipulation_details |-> [overall_score |-> Num(RandomInt(rnd[3], 20, 10) * Unit),
                               face_manipulation |-> Num(RandomInt(rnd[4], 15, 5) * Unit),
                               background_manipulation |-> Num(RandomInt(rnd[5], 20, 5) * Unit),
                               lighting_inconsistencies |-> Num(RandomInt(rnd[6], 15, 5) * Unit),
                               compression_artifacts |-> Num(RandomInt(rnd[7], 20, 5) * Unit)]]

\* part_009 317-319: Math.random() * 100 and the thresholds 80 and 50
EdgeV1_FallbackClassification(c) ==
    IF Above(c, 80) THEN "authentic"
    ELSE IF Above(c, 50) THEN "suspicious" ELSE "deepfake"

\* part_009 316-342 (first revision of the edge function); rnd are the seven
\* values of Math.random() in call order
EdgeV1_generateFallbackAnalysis(errorMessage, rnd) ==
    [confidence_score |-> ToFixed2(Num(rnd[1] * 100)),
     classification |-> EdgeV1_FallbackClassification(Num(rnd[1] * 100)),
     processing_time_ms |-> RandomInt(rnd[2], 3000, 1000),
     heatmap_data |-> [message |-> "API unavailable, using simulated analysis",
                       error |-> errorMessage,
                       fallback |-> TRUE,
                       regions |-> << Region(20 * Cent, 30 * Cent, 10 * Cent, 10 * Cent,
                                             Num(rnd[1] * 100), "simulated") >>],
     api_provider |-> "Fallback Analysis",
     manipulation_details |-> [overall_score |-> Num(RandomInt(rnd[3], 50, 0) * Unit),
                               face_manipulation |-> Num(RandomInt(rnd[4], 30, 0) * Unit),
                               background_manipulation |-> Num(RandomInt(rnd[5], 40, 0) * Unit),
                               lighting_inconsistencies |-> Num(RandomInt(rnd[6], 25, 0) * Unit),
                               compression_artifacts |-> Num(RandomInt(rnd[7], 35, 0) * Unit)]]

(***************************************************************************)
(* Inputs of the normalizers.                                              *)
(***************************************************************************)
MaxFields == 2

T_Real == <<"R", "e", "a", "l">>
T_FAKE == <<"F", "A", "K", "E">>
T_pending == <<"p", "e", "n", "d", "i", "n", "g">>
T_abc == <<"a", "b", "c">>

\* fractions around the thresholds (0.39996 * 100 rounds to 40.00), out of
\* range values, a percentage, and values of an unexpected type
ConfidenceSamples ==
    {Num(0 - 50000), Num(39994), Num(39996), Num(74994), Num(75000), Num(80000),
     Num(92000), Num(150000), Str(T_abc), Null}
ScoreSamples == {Num(39996), Num(92000), Num(9200400), Num(3999600), Str(T_abc), Null}
ProbabilitySamples == {Num(20000), Num(25000), Num(60004), Num(80000)}
SubScoreSamples == {Num(0), Num(10000), Num(20000), Num(150000)}
TextSamples == {Str(T_Real), Str(T_FAKE), Str(T_pending), Num(Unit)}
RegionSamples ==
    {Arr(<<>>),
     Arr(<< Region(25 * Cent, 25 * Cent, 50 * Cent, 50 * Cent, Num(91 * Unit), "face_region") >>),
     Arr(<< Region(5 * Cent, 10 * Cent, 30 * Cent, 20 * Cent, Num(12 * Unit + 345), "lighting"),
            Region(25 * Cent, 25 * Cent, 50 * Cent, 50 * Cent, Num(91 * Unit), "face_region") >>),
     Str(T_abc)}

Samples(k) ==
    IF k = "confidence" THEN ConfidenceSamples
    ELSE IF k \in {"score", "probability", "authenticity"} THEN ScoreSamples
    ELSE IF k \in MSConfidenceKeys \cup EdgeConfidenceKeys THEN ProbabilitySamples
    ELSE IF k \in MSSubScoreKeys \cup EdgeSubScoreKeys THEN SubScoreSamples
    ELSE IF k \in TextKeys THEN TextSamples
    ELSE RegionSamples

\* a key with one of its sample values, or no key
NoEntry == <<"", Undefined>>
Entries(K) == UNION {{<<k, v>> : v \in Samples(k)} : k \in K} \cup {NoEntry}

\* the object over the keys K that has the entries es (a later entry of the
\* same key replaces an earlier one)
ObjectOf(K, es) ==
    [k \in K |->
        IF \E i \in DOMAIN es : es[i][1] = k
        THEN LET last == CHOOSE i \in DOMAIN es :
                             /\ es[i][1] = k
                             /\ \A j \in DOMAIN es : es[j][1] = k => j <= i
             IN es[last][2]
        ELSE Undefined]

PrimitiveKinds == {"null", "undefined", "zero", "number", "emptystring", "string"}

\* the payload is a primitive, an object with fields of its own, an object
\* with a nested `response`, or an object with a nested `result`
IsSamplePayload(p) ==
    \/ \E k \in PrimitiveKinds : p = PrimitivePayload(k)
    \/ \E es \in [1..MaxFields -> Entries(MSKeys)] :
          p = Payload("object", ObjectOf(MSKeys, es), NoObject(MSKeys), NoObject(EdgeKeys))
    \/ \E es \in [1..MaxFields -> Entries(MSSubScoreKeys \cup {"regions"})] :
          p = Payload("object", NoFields(MSKeys), SomeObject(ObjectOf(MSKeys, es)), NoObject(EdgeKeys))
    \/ \E es \in [1..MaxFields -> Entries(EdgeKeys)] :
          p = Payload("object", NoFields(MSKeys), NoObject(MSKeys), SomeObject(ObjectOf(EdgeKeys, es)))

RandomSamples == {0, 20000, 50000, 50001, 99999}
ErrorSamples == {"Reality Defender API key not configured", "Failed to get signed URL: 500 Internal Server Error"}
ElapsedSamples == {0, 1500}

\* the input of a fallback generator: the error message, the elapsed time
\* and the values Math.random() returns
Failure(msg, elapsed, r1, r2) == [some |-> TRUE, msg |-> msg, elapsed |-> elapsed, r1 |-> r1, r2 |-> r2]
NoFailure == [some |-> FALSE, msg |-> "", elapsed |-> 0, r1 |-> 0, r2 |-> 0]
SampleFailures ==
    {Failure(msg, elapsed, r1, r2) :
        msg \in ErrorSamples \cup {""}, elapsed \in ElapsedSamples, r1 \in RandomSamples, r2 \in {0, 99999}}

VARIABLES payload, failure, produced
VARIABLES envKey, media_files, nextId, analysis_results, analyses, pc, up, an
VARIABLES page, fileUploads, run
VARIABLES ed

nvars == <<payload, failure, produced>>
pvars == <<envKey, media_files, nextId, analysis_results, analyses, pc, up, an>>
bvars == <<page, fileUploads, run>>
vars == <<payload, failure, produced, envKey, media_files, nextId, analysis_results, analyses, pc, up, an,
          page, fileUploads, run, ed>>

\* the upload page before any file was chosen
RunIdle == [at |-> 0, stage |-> "idle"]
BatchIdle ==
    /\ page = "part_003"
    /\ fileUploads = << >>
    /\ run = RunIdle

NoResult == [by |-> "none", r |-> [threw |-> FALSE]]

\* the input is either a provider payload or a failure of the exchange
NormInit ==
    /\ \/ IsSamplePayload(payload) /\ failure = NoFailure
       \/ payload = PrimitivePayload("undefined") /\ failure \in SampleFailures
    /\ produced = NoResult

\* MediaService.parseRealityDefenderResponse(payload)
Normalize ==
    /\ produced.by = "none" /\ ~failure.some
    /\ produced' = [by |-> "MediaService.parseRealityDefenderResponse",
                    r |-> parseRealityDefenderResponse(payload)]
    /\ UNCHANGED <<payload, failure>>
    /\ UNCHANGED <<pvars, bvars, ed>>

\* the edge function's parseRealityDefenderResponse(payload)
EdgeNormalize ==
    /\ produced.by = "none" /\ ~failure.some
    /\ produced' = [by |-> "edge.parseRealityDefenderResponse",
                    r |-> Edge_parseRealityDefenderResponse(payload)]
    /\ UNCHANGED <<payload, failure>>
    /\ UNCHANGED <<pvars, bvars, ed>>

\* the first revision of the edge function's parseRealityDefenderResponse(payload)
EdgeV1Normalize ==
    /\ produced.by = "none" /\ ~failure.some
    /\ produced' = [by |-> "edge.v1.parseRealityDefenderResponse",
                    r |-> EdgeV1_parseRealityDefenderResponse(payload)]
    /\ UNCHANGED <<payload, failure>>
    /\ UNCHANGED <<pvars, bvars, ed>>

\* MediaService.createDefaultResult('suspicious', 0.5, error.message), the
\* only arguments it is called with
DefaultResult ==
    /\ produced.by = "none" /\ failure.some
    /\ produced' = [by |-> "MediaService.createDefaultResult",
                    r |-> createDefaultResult("suspicious", Num(Unit \div 2), failure.msg)]
    /\ UNCHANGED <<payload, failure>>
    /\ UNCHANGED <<pvars, bvars, ed>>

\* MediaService.getFallbackAnalysis(startTime, errorMessage)
FallbackAnalysis ==
    /\ produced.by = "none" /\ failure.some
    /\ produced' = [by |-> "MediaService.getFallbackAnalysis",
                    r |-> getFallbackAnalysis(failure.elapsed, failure.msg, failure.r1)]
    /\ UNCHANGED <<payload, failure>>
    /\ UNCHANGED <<pvars, bvars, ed>>

\* the edge function's generateFallbackAnalysis(error.message)
EdgeFallbackAnalysis ==
    /\ produced.by = "none" /\ failure.some
    /\ produced' = [by |-> "edge.generateFallbackAnalysis",
                    r |-> Edge_generateFallbackAnalysis(failure.msg,
                              <<failure.r1, failure.r2, failure.r2, failure.r1,
                                failure.r2, failure.r1, failure.r2>>)]
    /\ UNCHANGED <<payload, failure>>
    /\ UNCHANGED <<pvars, bvars, ed>>

\* the first-revision edge function's generateFallbackAnalysis(error.message)
EdgeV1FallbackAnalysis ==
    /\ produced.by = "none" /\ failure.some
    /\ produced' = [by |-> "edge.v1.generateFallbackAnalysis",
                    r |-> EdgeV1_generateFallbackAnalysis(failure.msg,
                              <<failure.r1, failure.r2, failure.r2, failure.r1,
                                failure.r2, failure.r1, failure.r2>>)]
    /\ UNCHANGED <<payload, failure>>
    /\ UNCHANGED <<pvars, bvars, ed>>

NormNext ==
    \/ Normalize
    \/ EdgeNormalize
    \/ EdgeV1Normalize
    \/ DefaultResult
    \/ FallbackAnalysis
    \/ EdgeFallbackAnalysis
    \/ EdgeV1FallbackAnalysis


(***************************************************************************)
(* MediaService: uploadFile and analyzeFile against the database, the      *)
(* storage bucket and the provider.  One call is in flight at a time (the  *)
(* pages await each call); a request is a step, and a request whose        *)
(* outcome the code inspects may fail.                                     *)
(***************************************************************************)
MaxFiles == 1
MaxAnalyses == 2

MAX_FILE_SIZE == 100 * 1024 * 1024
SUPPORTED_TYPES == {"image/jpeg", "image/png", "video/mp4", "video/quicktime", "audio/mpeg", "audio/wav"}
maxAttempts == 10
delayBetweenAttempts == 2000
MAX_RETRIES == 3

PLACEHOLDER_KEY == "YOUR_REALITY_DEFENDER_API_KEY_HERE"
\* VITE_REALITY_DEFENDER_API_KEY: unset, too short, or a usable key
EnvKeys == {"", "rd_short", "rd_live_0123456789abcdef"}
KeyLength(k) ==
    CASE k = "" -> 0
      [] k = "rd_short" -> 8
      [] k = "rd_live_0123456789abcdef" -> 24
      [] k = PLACEHOLDER_KEY -> 34

\* part_005 367: import.meta.env.VITE_REALITY_DEFENDER_API_KEY || placeholder
API_KEY(env) == IF env = "" THEN PLACEHOLDER_KEY ELSE env

\* the members of class MediaService declared static; processRealityDefenderResults
\* (mediaService.ts 407) is declared without `static`
StaticMethods ==
    {"validateFile", "uploadFile", "analyzeFile", "performRealityDefenderDetection",
     "createDefaultResult", "parseRealityDefenderResponse", "generateHeatmapData",
     "extractManipulationDetails", "getFallbackAnalysis", "getUserFiles",
     "getAnalysisResult", "deleteFile", "getUserStats"}

\* this.m(...) inside a static method resolves m on the class itself
CallableOnClass(m) == m \in StaticMethods

FileSizes == {MAX_FILE_SIZE, MAX_FILE_SIZE + 1}
FileTypes == {"image/png", "video/mp4", "image/gif"}
Files == [type : FileTypes, size : FileSizes]

validateFile_sizeOnly(file) ==
    IF file.size > MAX_FILE_SIZE
    THEN [isValid |-> FALSE, error |-> "File size exceeds 100MB limit"]
    ELSE [isValid |-> TRUE, error |-> ""]

\* mediaService.ts 33-52
validateFile(file) ==
    IF file.size > MAX_FILE_SIZE
    THEN [isValid |-> FALSE, error |-> "File size exceeds 100MB limit"]
    ELSE IF file.type \notin SUPPORTED_TYPES
    THEN [isValid |-> FALSE, error |-> "Unsupported file type"]
    ELSE [isValid |-> TRUE, error |-> ""]

\* the terminal `response` objects the provider is taken to report
Completed(k, v) ==
    Payload("object", [NoFields(MSKeys) EXCEPT ![k] = v], NoObject(MSKeys), NoObject(EdgeKeys))
PollPayloads ==
    {Completed("confidence", Num(92000)),
     Completed("fakeProbability", Num(80000)),
     Payload("object", NoFields(MSKeys), NoObject(MSKeys), NoObject(EdgeKeys))}

\* mediaService.ts 406-418, as reached through this.processRealityDefenderResults(...)
\* from the static performRealityDefenderDetection
processRealityDefenderResults(result) ==
    IF ~CallableOnClass("processRealityDefenderResults")
    THEN Threw("this.processRealityDefenderResults is not a function")
    ELSE LET parsedResult == parseRealityDefenderResponse(result) IN
         IF parsedResult.threw THEN parsedResult
         ELSE [threw |-> FALSE,
               confidence_score |-> parsedResult.confidence_score,
               classification |-> parsedResult.classification,
               heatmap_data |-> parsedResult.heatmap_data,
               manipulation_details |-> parsedResult.manipulation_details,
               processing_time_ms |-> 0]

DetectionCatch_rethrow(message) ==
    [threw |-> TRUE, error |-> message]

\* mediaService.ts 397-403: the catch block of performRealityDefenderDetection
DetectionCatch(message) ==
    [threw |-> FALSE, r |-> createDefaultResult("suspicious", Num(Unit \div 2), message)]

\* mediaService.ts 185-201
AnalysisData(mediaFileId, analysisResult) ==
    [media_file_id |-> mediaFileId,
     confidence_score |-> analysisResult.confidence_score,
     classification |-> analysisResult.classification,
     processing_time_ms |-> analysisResult.processing_time_ms,
     analysis_metadata |-> [model_version |-> "reality-defender-v1.0",
                            api_provider |-> "Reality Defender",
                            processing_steps |-> <<"image_analysis", "deepfake_detection", "confidence_scoring">>,
                            confidence_thresholds |-> [authentic |-> 80, suspicious |-> 50, deepfake |-> 0]],
     heatmap_data |-> analysisResult.heatmap_data]

\* part_008 17-26: the NOT NULL and CHECK constraints of analysis_results
RowAccepted(row) ==
    /\ row.confidence_score.t = "number"
    /\ row.confidence_score.n >= 0 /\ row.confidence_score.n <= 100 * Unit
    /\ row.classification \in {"authentic", "deepfake", "suspicious"}

NoNet == [auth |-> 0, storage |-> 0, db |-> 0, file |-> 0, signedUrl |-> 0, put |-> 0, poll |-> 0]
UpIdle ==
    [file |-> [type |-> "", size |-> 0], publicUrl |-> "", id |-> 0, i |-> 0, error |-> "",
     rowsBefore |-> 0, net |-> NoNet]
NoDetection == [pending |-> TRUE]
AnIdle ==
    [id |-> 0, found |-> FALSE, file_url |-> "", file_type |-> "", mediaId |-> FALSE, attempt |-> 0,
     completed |-> FALSE, terminal |-> PrimitivePayload("undefined"),
     result |-> NoDetection, stored |-> NoDetection, failure |-> "", timeouts |-> 0,
     dbFault |-> FALSE, markFault |-> FALSE, rowsBefore |-> 0, error |-> "", net |-> NoNet,
     slept |-> 0]

\* the edge function reality-defender-analyze (second revision) at rest
EdIdle ==
    [apiKey |-> "", fileId |-> FALSE, attempts |-> 0, slept |-> 0, completed |-> FALSE,
     failure |-> "", out |-> NoDetection, net |-> NoNet]

PipelineInit ==
    /\ ed = EdIdle
    /\ envKey \in EnvKeys
    /\ media_files = << >>
    /\ nextId = 1
    /\ analysis_results = << >>
    /\ analyses = 0
    /\ pc = "idle"
    /\ up = UpIdle
    /\ an = AnIdle

Bump(net, k) == [net EXCEPT ![k] = @ + 1]

\* ---- uploadFile, mediaService.ts 54-160 ----

\* lines 58-61: validation; nothing has been requested yet
UploadStart ==
    /\ pc = "idle"
    /\ nextId <= MaxFiles
    /\ \E file \in Files :
          LET validation == validateFile(file) IN
          /\ up' = [UpIdle EXCEPT !.file = file, !.error = validation.error,
                                  !.rowsBefore = Cardinality(DOMAIN media_files)]
          /\ pc' = IF validation.isValid THEN "up_auth" ELSE "up_thrown"
    /\ UNCHANGED <<envKey, media_files, nextId, analysis_results, analyses, an>>
    /\ UNCHANGED <<nvars, bvars, ed>>

\* lines 64-68: supabase.auth.getUser()
UploadAuth ==
    /\ pc = "up_auth"
    /\ \E authenticated \in BOOLEAN :
          /\ up' = [up EXCEPT !.net = Bump(@, "auth"),
                              !.error = IF authenticated THEN "" ELSE "User not authenticated"]
          /\ pc' = IF authenticated THEN "up_storage" ELSE "up_thrown"
    /\ UNCHANGED <<envKey, media_files, nextId, analysis_results, analyses, an>>
    /\ UNCHANGED <<nvars, bvars, ed>>

\* a storage upload whose failure aborts uploadFile instead of falling back
UploadStorage_abort ==
    /\ pc = "up_storage"
    /\ \E outcome \in {"ok", "error", "throw"} :
          /\ up' = [up EXCEPT !.net = Bump(@, "storage"),
                              !.publicUrl = IF outcome = "ok" THEN "public" ELSE "fallback",
                              !.error = IF outcome = "ok" THEN "" ELSE "Storage error"]
          /\ pc' = IF outcome = "ok" THEN "up_insert" ELSE "up_thrown"
    /\ UNCHANGED <<envKey, media_files, nextId, analysis_results, analyses, an>>
    /\ UNCHANGED <<nvars, bvars, ed>>

\* lines 74-99: the storage upload; an error or an exception gives the
\* fallback URL
UploadStorage ==
    /\ pc = "up_storage"
    /\ \E outcome \in {"ok", "error", "throw"} :
          up' = [up EXCEPT !.net = Bump(@, "storage"),
                           !.publicUrl = IF outcome = "ok" THEN "public" ELSE "fallback"]
    /\ pc' = "up_insert"
    /\ UNCHANGED <<envKey, media_files, nextId, analysis_results, analyses, an>>
    /\ UNCHANGED <<nvars, bvars, ed>>

\* lines 101-120: getUser() again, then the insert of the media_files row
UploadInsert ==
    /\ pc = "up_insert"
    /\ \E ok \in BOOLEAN :
          IF ok
          THEN /\ media_files' = media_files @@
                      (nextId :> [file_type |-> up.file.type, file_size |-> up.file.size,
                                  file_url |-> up.publicUrl, status |-> "uploading",
                                  upload_progress |-> 0])
               /\ nextId' = nextId + 1
               /\ up' = [up EXCEPT !.net = Bump(Bump(@, "auth"), "db"), !.id = nextId, !.i = 0]
               /\ pc' = "up_progress"
          ELSE /\ up' = [up EXCEPT !.net = Bump(Bump(@, "auth"), "db"), !.error = "Database error"]
               /\ pc' = "up_thrown"
               /\ UNCHANGED <<media_files, nextId>>
    /\ UNCHANGED <<envKey, analysis_results, analyses, an>>
    /\ UNCHANGED <<nvars, bvars, ed>>

\* lines 122-136: the progress loop, i = 0, 10, ..., 100.  The result of an
\* update is never inspected, so a refused update changes nothing but the
\* progress left in the row; the updates are taken to be applied
UploadProgressLoop ==
    /\ pc = "up_progress"
    /\ media_files' = IF up.id \in DOMAIN media_files
                      THEN [media_files EXCEPT ![up.id].upload_progress = 100]
                      ELSE media_files
    /\ up' = [up EXCEPT !.net.db = @ + 11, !.i = 110]
    /\ pc' = "up_final"
    /\ UNCHANGED <<envKey, nextId, analysis_results, analyses, an>>
    /\ UNCHANGED <<nvars, bvars, ed>>

\* lines 138-159: the final update to status completed
UploadFinal ==
    /\ pc = "up_final"
    /\ \E ok \in BOOLEAN :
          IF ok /\ up.id \in DOMAIN media_files
          THEN /\ media_files' = [media_files EXCEPT ![up.id].status = "completed",
                                                     ![up.id].upload_progress = 100]
               /\ up' = [up EXCEPT !.net = Bump(@, "db")]
               /\ pc' = "up_returned"
          ELSE /\ up' = [up EXCEPT !.net = Bump(@, "db"), !.error = "Update error"]
               /\ pc' = "up_thrown"
               /\ UNCHANGED media_files
    /\ UNCHANGED <<envKey, nextId, analysis_results, analyses, an>>
    /\ UNCHANGED <<nvars, bvars, ed>>

\* the caller takes the returned row or the exception
UploadDone ==
    /\ pc \in {"up_returned", "up_thrown"}
    /\ pc' = "idle"
    /\ up' = UpIdle
    /\ UNCHANGED <<envKey, media_files, nextId, analysis_results, analyses, an>>
    /\ UNCHANGED <<nvars, bvars, ed>>

\* ---- analyzeFile, mediaService.ts 162-230 ----

\* lines 163-167: the update to status processing; its result is not inspected
AnalyzeStart ==
    /\ pc = "idle"
    /\ analyses < MaxAnalyses
    /\ \E id \in DOMAIN media_files, ok \in BOOLEAN :
          /\ media_files' = IF ok THEN [media_files EXCEPT ![id].status = "processing"] ELSE media_files
          /\ an' = [AnIdle EXCEPT !.id = id, !.dbFault = ~ok, !.net = Bump(@, "db"),
                                  !.rowsBefore = Len(analysis_results)]
    /\ analyses' = analyses + 1
    /\ pc' = "an_lookup"
    /\ UNCHANGED <<envKey, nextId, analysis_results, up>>
    /\ UNCHANGED <<nvars, bvars, ed>>

\* lines 170-179: the select of the media file
AnalyzeLookup ==
    /\ pc = "an_lookup"
    /\ \E ok \in BOOLEAN :
          IF ok /\ an.id \in DOMAIN media_files
          THEN /\ an' = [an EXCEPT !.net = Bump(@, "db"), !.found = TRUE,
                                   !.file_url = media_files[an.id].file_url,
                                   !.file_type = media_files[an.id].file_type]
               /\ pc' = "det_fetch"
          ELSE /\ an' = [an EXCEPT !.net = Bump(@, "db"), !.dbFault = TRUE,
                                   !.error = "Media file not found"]
               /\ pc' = "an_catch"
    /\ UNCHANGED <<envKey, media_files, nextId, analysis_results, analyses, up>>
    /\ UNCHANGED <<nvars, bvars, ed>>

\* performRealityDefenderDetection ends: with a result (line 182 continues)
\* or, if its catch block let the error through, with an exception
DetectionEnds(frame, outcome) ==
    IF outcome.threw
    THEN /\ an' = [frame EXCEPT !.error = outcome.error]
         /\ pc' = "an_catch"
    ELSE /\ an' = [frame EXCEPT !.result = outcome.r]
         /\ pc' = "an_store"

\* an error thrown inside the try block of performRealityDefenderDetection
DetectionFails(frame, message) ==
    DetectionEnds([frame EXCEPT !.failure = message], DetectionCatch(message))

\* lines 240-267: the key checks and the fetch of the stored file
DetectFetchFile ==
    /\ pc = "det_fetch"
    /\ LET apiKey == API_KEY(envKey) IN
       IF apiKey = ""
       THEN DetectionEnds(an, [threw |-> FALSE,
                               r |-> createDefaultResult("suspicious", Num(Unit \div 2), "API key missing")])
       ELSE IF apiKey = PLACEHOLDER_KEY \/ KeyLength(apiKey) < 10
       THEN DetectionEnds(an, DetectionCatch("Invalid Reality Defender API key"))
       ELSE \E outcome \in {"ok", "notok", "throw"} :
               LET frame == [an EXCEPT !.net = Bump(@, "file")] IN
               IF outcome = "ok" THEN an' = frame /\ pc' = "det_signed"
               ELSE IF outcome = "notok" THEN DetectionFails(frame, "Failed to fetch image")
               ELSE DetectionFails(frame, "Failed to fetch")
    /\ UNCHANGED <<envKey, media_files, nextId, analysis_results, analyses, up>>
    /\ UNCHANGED <<nvars, bvars, ed>>

\* lines 269-306: the request for the upload target
DetectSignedUrl ==
    /\ pc = "det_signed"
    /\ \E outcome \in {"ok", "nomediaid", "malformed", "notok", "timeout"} :
          LET frame == [an EXCEPT !.net = Bump(@, "signedUrl"),
                                  !.timeouts = IF outcome = "timeout" THEN @ + 1 ELSE @] IN
          CASE outcome = "ok" -> an' = [frame EXCEPT !.mediaId = TRUE] /\ pc' = "det_put"
            [] outcome = "nomediaid" -> an' = frame /\ pc' = "det_put"
            [] outcome = "malformed" ->
                   DetectionFails(frame, "Invalid signed URL response from Reality Defender API")
            [] outcome = "notok" -> DetectionFails(frame, "Failed to get signed URL")
            [] outcome = "timeout" -> DetectionFails(frame, "The operation timed out")
    /\ UNCHANGED <<envKey, media_files, nextId, analysis_results, analyses, up>>
    /\ UNCHANGED <<nvars, bvars, ed>>

\* lines 308-342: the PUT to the upload target, then the media id check
DetectPut ==
    /\ pc = "det_put"
    /\ \E outcome \in {"ok", "notok", "timeout"} :
          LET frame == [an EXCEPT !.net = Bump(@, "put"),
                                  !.timeouts = IF outcome = "timeout" THEN @ + 1 ELSE @] IN
          CASE outcome = "ok" ->
                   IF an.mediaId THEN an' = [frame EXCEPT !.attempt = 1] /\ pc' = "det_poll"
                   ELSE DetectionFails(frame, "No media ID found in the response from Reality Defender API")
            [] outcome = "notok" -> DetectionFails(frame, "Failed to upload file")
            [] outcome = "timeout" -> DetectionFails(frame, "The operation timed out")
    /\ UNCHANGED <<envKey, media_files, nextId, analysis_results, analyses, up>>
    /\ UNCHANGED <<nvars, bvars, ed>>

\* the value of this.processRealityDefenderResults(response) at lines 382
\* and 387: the processed result, or the TypeError taken by the catch block
DetectionReturns(frame, response) ==
    LET processed == processRealityDefenderResults(response) IN
    IF processed.threw
    THEN DetectionEnds(frame, DetectionCatch(processed.error))
    ELSE DetectionEnds(frame, [threw |-> FALSE, r |-> processed])

\* a polling loop that tests the attempt count one iteration late
DetectPoll_oneMore ==
    /\ pc = "det_poll"
    /\ \E outcome \in {"complete", "incomplete", "notok", "timeout"}, response \in PollPayloads :
          LET frame == [an EXCEPT !.net = Bump(@, "poll"),
                                  !.timeouts = IF outcome = "timeout" THEN @ + 1 ELSE @] IN
          CASE outcome = "timeout" -> DetectionFails(frame, "The operation timed out")
            [] outcome = "notok" ->
                   IF an.attempt = maxAttempts + 1
                   THEN DetectionFails(frame, "Failed to get results after 10 attempts")
                   ELSE /\ an' = [frame EXCEPT !.attempt = @ + 1, !.slept = @ + delayBetweenAttempts]
                        /\ pc' = "det_poll"
            [] outcome = "complete" ->
                   DetectionReturns([frame EXCEPT !.completed = TRUE, !.terminal = response], response)
            [] outcome = "incomplete" ->
                   IF an.attempt = maxAttempts + 1
                   THEN DetectionReturns([frame EXCEPT !.failure = "Maximum attempts reached"],
                                         Payload("object", NoFields(MSKeys), NoObject(MSKeys), NoObject(EdgeKeys)))
                   ELSE /\ an' = [frame EXCEPT !.attempt = @ + 1, !.slept = @ + delayBetweenAttempts]
                        /\ pc' = "det_poll"
    /\ UNCHANGED <<envKey, media_files, nextId, analysis_results, analyses, up>>
    /\ UNCHANGED <<nvars, bvars, ed>>

\* lines 348-392: one iteration of the polling loop
DetectPoll ==
    /\ pc = "det_poll"
    /\ \E outcome \in {"complete", "incomplete", "notok", "timeout"}, response \in PollPayloads :
          LET frame == [an EXCEPT !.net = Bump(@, "poll"),
                                  !.timeouts = IF outcome = "timeout" THEN @ + 1 ELSE @] IN
          CASE outcome = "timeout" -> DetectionFails(frame, "The operation timed out")
            [] outcome = "notok" ->
                   IF an.attempt = maxAttempts
                   THEN DetectionFails(frame, "Failed to get results after 10 attempts")
                   ELSE /\ an' = [frame EXCEPT !.attempt = @ + 1, !.slept = @ + delayBetweenAttempts]
                        /\ pc' = "det_poll"
            [] outcome = "complete" ->
                   DetectionReturns([frame EXCEPT !.completed = TRUE, !.terminal = response], response)
            [] outcome = "incomplete" ->
                   IF an.attempt = maxAttempts
                   THEN DetectionReturns([frame EXCEPT !.failure = "Maximum attempts reached"],
                                         Payload("object", NoFields(MSKeys), NoObject(MSKeys), NoObject(EdgeKeys)))
                   ELSE /\ an' = [frame EXCEPT !.attempt = @ + 1, !.slept = @ + delayBetweenAttempts]
                        /\ pc' = "det_poll"
    /\ UNCHANGED <<envKey, media_files, nextId, analysis_results, analyses, up>>
    /\ UNCHANGED <<nvars, bvars, ed>>

\* lines 184-211: the insert of the analysis_results row
AnalyzeStore ==
    /\ pc = "an_store"
    /\ LET analysisData == AnalysisData(an.id, an.result) IN
       \E ok \in BOOLEAN :
          IF ok /\ RowAccepted(analysisData) /\ an.id \in DOMAIN media_files
          THEN /\ analysis_results' = Append(analysis_results, analysisData)
               /\ an' = [an EXCEPT !.net = Bump(@, "db"), !.stored = analysisData]
               /\ pc' = "an_mark"
          ELSE /\ an' = [an EXCEPT !.net = Bump(@, "db"), !.dbFault = TRUE,
                                   !.error = "Analysis storage failed"]
               /\ pc' = "an_catch"
               /\ UNCHANGED analysis_results
    /\ UNCHANGED <<envKey, media_files, nextId, analyses, up>>
    /\ UNCHANGED <<nvars, bvars, ed>>

\* lines 213-219: the update to status completed; its result is not inspected
AnalyzeMarkCompleted ==
    /\ pc = "an_mark"
    /\ \E ok \in BOOLEAN :
          /\ media_files' = IF ok /\ an.id \in DOMAIN media_files
                            THEN [media_files EXCEPT ![an.id].status = "completed"]
                            ELSE media_files
          /\ an' = [an EXCEPT !.net = Bump(@, "db"), !.dbFault = @ \/ ~ok]
    /\ pc' = "an_returned"
    /\ UNCHANGED <<envKey, nextId, analysis_results, analyses, up>>
    /\ UNCHANGED <<nvars, bvars, ed>>

\* a catch block that marks the file failed and then returns instead of rethrowing
AnalyzeCatch_swallow ==
    /\ pc = "an_catch"
    /\ \E ok \in BOOLEAN :
          /\ media_files' = IF ok /\ an.id \in DOMAIN media_files
                            THEN [media_files EXCEPT ![an.id].status = "failed"]
                            ELSE media_files
          /\ an' = [an EXCEPT !.net = Bump(@, "db"), !.dbFault = @ \/ ~ok, !.markFault = ~ok]
    /\ pc' = "an_returned"
    /\ UNCHANGED <<envKey, nextId, analysis_results, analyses, up>>
    /\ UNCHANGED <<nvars, bvars, ed>>

\* lines 221-229: the catch block; the result of the update is not inspected
\* (markFault records that the database refused it)
AnalyzeCatch ==
    /\ pc = "an_catch"
    /\ \E ok \in BOOLEAN :
          /\ media_files' = IF ok /\ an.id \in DOMAIN media_files
                            THEN [media_files EXCEPT ![an.id].status = "failed"]
                            ELSE media_files
          /\ an' = [an EXCEPT !.net = Bump(@, "db"), !.dbFault = @ \/ ~ok, !.markFault = ~ok]
    /\ pc' = "an_thrown"
    /\ UNCHANGED <<envKey, nextId, analysis_results, analyses, up>>
    /\ UNCHANGED <<nvars, bvars, ed>>

\* the caller takes the stored result or the exception
AnalyzeDone ==
    /\ pc \in {"an_returned", "an_thrown"}
    /\ pc' = "idle"
    /\ an' = AnIdle
    /\ UNCHANGED <<envKey, media_files, nextId, analysis_results, analyses, up>>
    /\ UNCHANGED <<nvars, bvars, ed>>

(***************************************************************************)
(* Edge function reality-defender-analyze (second revision): the request   *)
(* handler, part_009 384-425, and analyzeWithRealityDefender, 427-583.     *)
(* The function is deployed apart from the client and shares no state      *)
(* with it; it serves one request at a time, while the client is in its    *)
(* starting state.                                                         *)
(***************************************************************************)
Edge_maxAttempts == 15
Edge_pollDelay == 2000

\* a completed provider answer with a result object, and one without
EdgePollPayloads ==
    {Payload("object", NoFields(MSKeys), NoObject(MSKeys),
             SomeObject([NoFields(EdgeKeys) EXCEPT !["confidence"] = Num(92000)])),
     Payload("object", NoFields(MSKeys), NoObject(MSKeys), NoObject(EdgeKeys))}

\* an error thrown in serve or in analyzeWithRealityDefender (rethrown at
\* 572-582), on its way to the catch block of serve
EdgeFails(frame, message) ==
    /\ ed' = [frame EXCEPT !.failure = message]
    /\ pc' = "edge_catch"

\* lines 384-409 and 443-445: the key checks and the fileUrl check
EdgeServe ==
    /\ pc = "idle"
    /\ nextId = 1 /\ analyses = 0
    /\ \E apiKey \in EnvKeys \cup {PLACEHOLDER_KEY}, fileUrl \in BOOLEAN :
          LET frame == [EdIdle EXCEPT !.apiKey = apiKey] IN
          IF apiKey = "" \/ apiKey = PLACEHOLDER_KEY
          THEN EdgeFails(frame, "Reality Defender API key not configured")
          ELSE IF ~fileUrl THEN EdgeFails(frame, "File URL is required")
          ELSE IF KeyLength(apiKey) < 10
          THEN EdgeFails(frame, "Invalid or missing Reality Defender API key")
          ELSE ed' = frame /\ pc' = "edge_fetch"
    /\ UNCHANGED <<envKey, media_files, nextId, analysis_results, analyses, up, an>>
    /\ UNCHANGED <<nvars, bvars>>

\* lines 447-456: the fetch of the file; abort is the 60 s AbortController
EdgeFetchFile ==
    /\ pc = "edge_fetch"
    /\ \E outcome \in {"ok", "notok", "abort"} :
          LET frame == [ed EXCEPT !.net = Bump(@, "file")] IN
          CASE outcome = "ok" -> ed' = frame /\ pc' = "edge_signed"
            [] outcome = "notok" -> EdgeFails(frame, "Failed to fetch file")
            [] outcome = "abort" -> EdgeFails(frame, "The signal has been aborted")
    /\ UNCHANGED <<envKey, media_files, nextId, analysis_results, analyses, up, an>>
    /\ UNCHANGED <<nvars, bvars>>

\* lines 458-487: the request for the signed URL
EdgeSignedUrl ==
    /\ pc = "edge_signed"
    /\ \E outcome \in {"ok", "nofileid", "nourl", "notok", "abort"} :
          LET frame == [ed EXCEPT !.net = Bump(@, "signedUrl")] IN
          CASE outcome = "ok" -> ed' = [frame EXCEPT !.fileId = TRUE] /\ pc' = "edge_put"
            [] outcome = "nofileid" -> ed' = frame /\ pc' = "edge_put"
            [] outcome = "nourl" -> EdgeFails(frame, "No signed URL received from Reality Defender API")
            [] outcome = "notok" -> EdgeFails(frame, "Failed to get signed URL")
            [] outcome = "abort" -> EdgeFails(frame, "The signal has been aborted")
    /\ UNCHANGED <<envKey, media_files, nextId, analysis_results, analyses, up, an>>
    /\ UNCHANGED <<nvars, bvars>>

\* lines 489-520: the PUT, the file id check and the first wait of 2 s
EdgePut ==
    /\ pc = "edge_put"
    /\ \E outcome \in {"ok", "notok", "abort"} :
          LET frame == [ed EXCEPT !.net = Bump(@, "put")] IN
          CASE outcome = "ok" ->
                   IF ed.fileId THEN ed' = [frame EXCEPT !.slept = @ + Edge_pollDelay] /\ pc' = "edge_poll"
                   ELSE EdgeFails(frame, "No file ID received from signed URL response")
            [] outcome = "notok" -> EdgeFails(frame, "Failed to upload file")
            [] outcome = "abort" -> EdgeFails(frame, "The signal has been aborted")
    /\ UNCHANGED <<envKey, media_files, nextId, analysis_results, analyses, up, an>>
    /\ UNCHANGED <<nvars, bvars>>

\* lines 526-567: after an answer that is not final, attempts++ and, when
\* attempts are left, the wait of 2 s; otherwise the throw of line 570
EdgePollAgain(frame) ==
    IF frame.attempts + 1 < Edge_maxAttempts
    THEN /\ ed' = [frame EXCEPT !.attempts = @ + 1, !.slept = @ + Edge_pollDelay]
         /\ pc' = "edge_poll"
    ELSE EdgeFails([frame EXCEPT !.attempts = @ + 1],
                   "Analysis timeout - results not available within expected timeframe")

\* lines 526-570: one iteration of the polling loop
EdgePoll ==
    /\ pc = "edge_poll"
    /\ ed.attempts < Edge_maxAttempts
    /\ \E outcome \in {"complete", "failed", "incomplete", "notok", "abort"}, response \in EdgePollPayloads :
          LET frame == [ed EXCEPT !.net = Bump(@, "poll")] IN
          CASE outcome = "abort" -> EdgeFails(frame, "The signal has been aborted")
            [] outcome = "notok" -> EdgePollAgain(frame)
            [] outcome = "incomplete" -> EdgePollAgain(frame)
            [] outcome = "failed" -> EdgeFails(frame, "Analysis failed")
            [] outcome = "complete" ->
                   LET parsedResult == Edge_parseRealityDefenderResponse(response) IN
                   IF parsedResult.threw
                   THEN EdgeFails([frame EXCEPT !.completed = TRUE], parsedResult.error)
                   ELSE /\ ed' = [frame EXCEPT !.completed = TRUE, !.out = parsedResult]
                        /\ pc' = "edge_respond"
    /\ UNCHANGED <<envKey, media_files, nextId, analysis_results, analyses, up, an>>
    /\ UNCHANGED <<nvars, bvars>>

\* lines 417-425: the catch block of serve answers with the fallback analysis
EdgeCatch ==
    /\ pc = "edge_catch"
    /\ \E r \in {0, 99999} :
          ed' = [ed EXCEPT !.out = Edge_generateFallbackAnalysis(ed.failure, <<r, r, r, r, r, r, r>>)]
    /\ pc' = "edge_respond"
    /\ UNCHANGED <<envKey, media_files, nextId, analysis_results, analyses, up, an>>
    /\ UNCHANGED <<nvars, bvars>>

\* lines 411-413 and 422-424: the response is sent
EdgeRespond ==
    /\ pc = "edge_respond"
    /\ pc' = "idle"
    /\ ed' = EdIdle
    /\ UNCHANGED <<envKey, media_files, nextId, analysis_results, analyses, up, an>>
    /\ UNCHANGED <<nvars, bvars>>

Next ==
    \/ UploadStart
    \/ UploadAuth
    \/ UploadStorage
    \/ UploadInsert
    \/ UploadProgressLoop
    \/ UploadFinal
    \/ UploadDone
    \/ AnalyzeStart
    \/ AnalyzeLookup
    \/ DetectFetchFile
    \/ DetectSignedUrl
    \/ DetectPut
    \/ DetectPoll
    \/ AnalyzeStore
    \/ AnalyzeMarkCompleted
    \/ AnalyzeCatch
    \/ AnalyzeDone
    \/ EdgeServe
    \/ EdgeFetchFile
    \/ EdgeSignedUrl
    \/ EdgePut
    \/ EdgePoll
    \/ EdgeCatch
    \/ EdgeRespond

Init ==
    /\ PipelineInit
    /\ BatchIdle
    /\ payload = PrimitivePayload("undefined")
    /\ failure = NoFailure
    /\ produced = NoResult

Spec == Init /\ [][Next]_vars

\* the normalizers and the fallback generators applied to sample inputs; the
\* pipeline is at rest
NormalizerInit ==
    /\ NormInit
    /\ PipelineInit
    /\ envKey = ""
    /\ BatchIdle

SpecNormalizer == NormalizerInit /\ [][NormNext]_vars

(***************************************************************************)
(* Properties of uploadFile and analyzeFile.                               *)
(***************************************************************************)
UploadInFlight == pc \in {"up_auth", "up_storage", "up_insert", "up_progress", "up_final",
                          "up_returned", "up_thrown"}
AnalyzeEnded == pc \in {"an_returned", "an_thrown"}
DetectionEnded == pc \in {"an_store", "an_mark", "an_catch", "an_returned", "an_thrown"}

\* the exchange with the provider failed (file fetch, upload target, PUT,
\* media id, polling)
ProviderFailure == an.failure # ""

\* C1: when an analyzeFile call met a provider-side failure and the database
\* answered every request of the call, the call returns (it does not throw),
\* exactly one analysis_results row was added by it, and the media file is
\* left in status completed.
C1_ProviderFailureYieldsResult ==
    (AnalyzeEnded /\ ProviderFailure /\ ~an.dbFault)
    => /\ pc = "an_returned"
       /\ Len(analysis_results) = an.rowsBefore + 1
       /\ analysis_results[Len(analysis_results)] = an.stored
       /\ an.stored.media_file_id = an.id
       /\ media_files[an.id].status = "completed"

\* C1 witness: the upload-target request was refused, and the call returned
\* with a stored row.
C1_Witness ==
    /\ pc = "an_returned"
    /\ an.failure = "Failed to get signed URL"
    /\ ~an.dbFault
    /\ Len(analysis_results) = an.rowsBefore + 1
    /\ media_files[an.id].status = "completed"

InvalidFile(file) ==
    file.size > MAX_FILE_SIZE \/ file.type \notin SUPPORTED_TYPES

\* C2: an uploadFile call for a file over 100 MiB or of a type outside the
\* allowed set ends in a validation error, has issued no auth, storage or
\* database request, and has added no media_files row.
C2_ValidationBeforeNetwork ==
    (UploadInFlight /\ InvalidFile(up.file))
    => /\ pc = "up_thrown"
       /\ up.error \in {"File size exceeds 100MB limit", "Unsupported file type"}
       /\ up.net = NoNet
       /\ up.id = 0
       /\ Cardinality(DOMAIN media_files) = up.rowsBefore

\* C2 witness: an image/gif of exactly 100 MiB was rejected for its type.
C2_Witness ==
    /\ pc = "up_thrown"
    /\ up.file = [type |-> "image/gif", size |-> MAX_FILE_SIZE]
    /\ up.error = "Unsupported file type"
    /\ up.net = NoNet

\* C4: when the provider's terminal result carries confidence 0.92 the row
\* analyzeFile stores has confidence_score 92.00 and classification
\* authentic, and when it carries fake probability 0.8 the row has
\* confidence_score 20.00 and classification deepfake.
C4_EndToEnd ==
    (pc = "an_returned" /\ an.completed)
    => /\ an.terminal = Completed("confidence", Num(92000))
            => /\ an.stored.confidence_score = Num(92 * Unit)
               /\ an.stored.classification = "authentic"
       /\ an.terminal = Completed("fakeProbability", Num(80000))
            => /\ an.stored.confidence_score = Num(20 * Unit)
               /\ an.stored.classification = "deepfake"

\* every request the call made to the provider timed out
AlwaysTimedOut ==
    /\ an.timeouts > 0
    /\ an.timeouts = an.net.signedUrl + an.net.put + an.net.poll

\* the result carries a fallback flag that is true
FallbackFlag(r) ==
    \/ "fallback" \in DOMAIN r /\ r.fallback = TRUE
    \/ "fallback" \in DOMAIN r.heatmap_data /\ r.heatmap_data.fallback = TRUE

\* C5: against a provider that always times out, the detection makes
\* exactly MAX_RETRIES + 1 attempts at the exchange before it returns a
\* result, and that result's fallback flag is true.
C5_RetriesThenFallback ==
    (pc = "an_store" /\ AlwaysTimedOut)
    => /\ an.net.signedUrl = MAX_RETRIES + 1
       /\ FallbackFlag(an.result)

\* the stored row carries the message somewhere a reader can find it
CarriesError(row, message) ==
    \/ "error" \in DOMAIN row /\ row.error = message
    \/ "error" \in DOMAIN row.heatmap_data /\ row.heatmap_data.error = message
    \/ "error" \in DOMAIN row.analysis_metadata /\ row.analysis_metadata.error = message

\* C6: when the detection produced a fallback result, the row analyzeFile
\* stores carries the fallback marker and the causing error message.
C6_FallbackPreserved ==
    (pc \in {"an_mark", "an_returned"} /\ "error" \in DOMAIN an.result)
    => /\ FallbackFlag(an.stored) \/ an.stored.analysis_metadata.api_provider # "Reality Defender"
       /\ CarriesError(an.stored, an.result.error)

\* fileType.startsWith('image/')
IsImageType(type) == type \in {"image/jpeg", "image/png", "image/gif"}

\* C7: for a media file whose type is not an image type the detection makes
\* no request to the provider: no upload-target request, no PUT, no poll.
C7_NonImageShortCircuit ==
    (an.found /\ ~IsImageType(an.file_type))
    => /\ an.net.signedUrl = 0
       /\ an.net.put = 0
       /\ an.net.poll = 0

(***************************************************************************)
(* Properties of the normalizers.                                          *)
(***************************************************************************)
ByMSParse == produced.by = "MediaService.parseRealityDefenderResponse"
ByEdgeParse == produced.by = "edge.parseRealityDefenderResponse"
Returned == (ByMSParse \/ ByEdgeParse) /\ ~produced.r.threw

\* the priority order of the confidence fields, per normalizer
MSPriority == <<"confidence", "authenticityScore", "score", "fakeProbability", "realProbability">>
EdgePriority == <<"confidence", "authenticity_score", "score", "fake_probability", "real_probability",
                  "manipulation_score">>

AnyPresent(f, order) == \E i \in DOMAIN order : Defined(f[order[i]])
FirstPresent(f, order) ==
    order[CHOOSE i \in DOMAIN order :
              /\ Defined(f[order[i]])
              /\ \A j \in DOMAIN order : Defined(f[order[j]]) => i <= j]

\* a textual classification or status decided the result
MSTextualOverride(p) ==
    p.kind = "object" /\ ~AnyPresent(p.f, MSPriority) /\ Defined(p.f.classification)
EdgeTextualOverride(p) ==
    /\ p.result.some
    /\ \/ Edge_DirectBranch(p.result.f)
       \/ /\ p.result.f.status.t = "string"
          /\ Edge_StatusVerdict(p.result.f.status.s) # "none"
TextualOverride ==
    \/ ByMSParse /\ MSTextualOverride(payload)
    \/ ByEdgeParse /\ EdgeTextualOverride(payload)

\* C3: when a normalizer returns a confidence score c in [0,100] and no
\* textual override fired, the classification is authentic iff c >= 75,
\* suspicious iff 40 <= c < 75 and deepfake iff c < 40.
C3_Thresholds ==
    (/\ Returned
     /\ produced.r.confidence_score.t = "number"
     /\ ~TextualOverride)
    => LET c == produced.r.confidence_score.n
           cls == produced.r.classification
       IN /\ c >= 0 /\ c <= 100 * Unit
          /\ (cls = "authentic") <=> (c >= 75 * Unit)
          /\ (cls = "suspicious") <=> (c >= 40 * Unit /\ c < 75 * Unit)
          /\ (cls = "deepfake") <=> (c < 40 * Unit)

\* C3 witness: 0.39996 is normalized to exactly 40.00, the lower boundary of
\* suspicious.
C3_Witness ==
    /\ ByMSParse /\ ~produced.r.threw
    /\ payload.f.confidence = Num(39996)
    /\ produced.r.confidence_score = Num(40 * Unit)
    /\ produced.r.classification = "suspicious"

\* C8: every result produced (by a normalizer, by createDefaultResult or by
\* a fallback generator) has the classification its confidence score gives
\* under the thresholds 75 and 40, unless a textual override fired.
C8_ClassificationDerivable ==
    (/\ produced.by # "none"
     /\ "confidence_score" \in DOMAIN produced.r
     /\ produced.r.confidence_score.t = "number"
     /\ ~TextualOverride)
    => LET c == produced.r.confidence_score.n IN
       produced.r.classification =
           (IF c >= 75 * Unit THEN "authentic" ELSE IF c >= 40 * Unit THEN "suspicious" ELSE "deepfake")

\* the payload that keeps only the field k of the object the normalizer reads
OnlyField(p, k) ==
    IF ByMSParse
    THEN Payload("object", [NoFields(MSKeys) EXCEPT ![k] = p.f[k]], NoObject(MSKeys), NoObject(EdgeKeys))
    ELSE Payload("object", NoFields(MSKeys), NoObject(MSKeys),
                 SomeObject([NoFields(EdgeKeys) EXCEPT ![k] = p.result.f[k]]))

\* C9: the confidence a normalizer returns is the one it returns for the
\* payload reduced to its highest-priority confidence field, and 50 when the
\* payload has none of the confidence fields (textual overrides aside).
C9_FirstMatchWins ==
    (/\ Returned
     /\ payload.kind = "object"
     /\ ~TextualOverride)
    => LET f == IF ByMSParse THEN payload.f ELSE payload.result.f
           order == IF ByMSParse THEN MSPriority ELSE EdgePriority
       IN IF AnyPresent(f, order)
          THEN LET only == OnlyField(payload, FirstPresent(f, order))
                   alone == IF ByMSParse THEN parseRealityDefenderResponse(only)
                            ELSE Edge_parseRealityDefenderResponse(only)
               IN ~alone.threw /\ produced.r.confidence_score = alone.confidence_score
          ELSE produced.r.confidence_score = Num(50 * Unit)

\* a field the normalizer recognises is present in the object it reads
RecognisedField(p) ==
    IF ByMSParse
    THEN p.kind = "object" /\ \E k \in MSConfidenceKeys \cup {"classification"} : Defined(p.f[k])
    ELSE p.result.some /\ \E k \in EdgeConfidenceKeys \cup TextKeys : Defined(p.result.f[k])

\* C10: a normalizer returns a result for every payload, and when no
\* recognisable field is present the result is confidence 50, suspicious.
C10_NeverFails ==
    (ByMSParse \/ ByEdgeParse)
    => /\ ~produced.r.threw
       /\ ~RecognisedField(payload)
            => /\ produced.r.confidence_score = Num(50 * Unit)
               /\ produced.r.classification = "suspicious"

ByEdgeV1Parse == produced.by = "edge.v1.parseRealityDefenderResponse"

\* the vocabulary a textual classification or status matches
TextVerdict(v) == IF v.t = "string" THEN Edge_StatusVerdict(v.s) ELSE "none"

\* the verdicts of the textual fields of the object the normalizer reads
Verdicts(p) ==
    IF ByMSParse THEN {TextVerdict(p.f.classification)} \ {"none"}
    ELSE {TextVerdict(p.result.f.classification), TextVerdict(p.result.f.status)} \ {"none"}

\* the payload without its textual fields, and what the normalizer makes of it
WithoutText(p) ==
    IF ByMSParse
    THEN Payload(p.kind, [p.f EXCEPT !.classification = Undefined], p.response, p.result)
    ELSE Payload(p.kind, p.f, p.response,
                 [p.result EXCEPT !.f = [p.result.f EXCEPT !.classification = Undefined,
                                                           !.status = Undefined]])
NumericAlone(p) ==
    IF ByMSParse THEN parseRealityDefenderResponse(WithoutText(p))
    ELSE Edge_parseRealityDefenderResponse(WithoutText(p))

SnappedConfidence(verdict) == IF verdict = "authentic" THEN Num(85 * Unit) ELSE Num(25 * Unit)

\* C11: when the classification or status string of the payload matches the
\* real/authentic/genuine (resp. fake/deepfake/manipulated) vocabulary, the
\* output classification is authentic (resp. deepfake) whatever the numeric
\* confidence fields say, and when the numeric fields alone would give
\* another classification the output confidence is 85 (resp. 25).
C11_TextualOverride ==
    (/\ Returned
     /\ payload.kind = "object"
     /\ Cardinality(Verdicts(payload)) = 1)
    => LET verdict == CHOOSE v \in Verdicts(payload) : TRUE
           alone == NumericAlone(payload)
       IN /\ produced.r.classification = verdict
          /\ (~alone.threw /\ alone.classification # verdict)
                => produced.r.confidence_score = SnappedConfidence(verdict)

\* every confidence field present in the object the normalizer reads holds a
\* number
NumericConfidenceInputs(p) ==
    IF ByMSParse
    THEN \A k \in MSConfidenceKeys : Defined(p.f[k]) => p.f[k].t = "number"
    ELSE \A k \in EdgeConfidenceKeys : Defined(p.result.f[k]) => p.result.f[k].t = "number"

\* C12: for numeric confidence inputs, also outside the expected scale, the
\* confidence_score a normalizer outputs is a number in [0,100].
C12_ConfidenceInRange ==
    (/\ ByMSParse \/ ByEdgeParse \/ ByEdgeV1Parse
     /\ ~produced.r.threw
     /\ NumericConfidenceInputs(payload))
    => /\ produced.r.confidence_score.t = "number"
       /\ produced.r.confidence_score.n >= 0
       /\ produced.r.confidence_score.n <= 100 * Unit

ByNormalizer == ByMSParse \/ ByEdgeParse \/ ByEdgeV1Parse

\* the sub-score fields of the object the normalizer reads, in the order
\* face, background, lighting, compression
SubScoreInputs(p) ==
    IF ByMSParse
    THEN LET f == ResultData(p) IN
         <<f.faceManipulation, f.backgroundManipulation, f.lightingInconsistencies, f.compressionArtifacts>>
    ELSE LET f == p.result.f IN
         <<f.face_manipulation, f.background_manipulation, f.lighting_inconsistencies, f.compression_artifacts>>

NumericSubScoreInputs(p) ==
    \A i \in 1..4 : Defined(SubScoreInputs(p)[i]) => SubScoreInputs(p)[i].t = "number"

HasDetails(r) == "overall_score" \in DOMAIN r.manipulation_details

InRange(x) == x.t = "number" /\ x.n >= 0 /\ x.n <= 100 * Unit

\* C13: the manipulation sub-scores, the overall score and the confidence of
\* every synthesized heatmap region that a normalizer outputs lie in
\* [0,100], for numeric inputs of any size.
C13_OutputsInRange ==
    (/\ ByNormalizer
     /\ ~produced.r.threw
     /\ NumericConfidenceInputs(payload)
     /\ NumericSubScoreInputs(payload))
    => LET md == produced.r.manipulation_details
           hm == produced.r.heatmap_data
       IN /\ HasDetails(produced.r)
             => /\ InRange(md.overall_score)
                /\ InRange(md.face_manipulation)
                /\ InRange(md.background_manipulation)
                /\ InRange(md.lighting_inconsistencies)
                /\ InRange(md.compression_artifacts)
          /\ "generated" \in DOMAIN hm
             => \A i \in DOMAIN hm.regions : InRange(hm.regions[i].confidence)

\* the extracted values of the sub-scores that are present in the payload
PresentScores(p) ==
    LET present == SelectSeq(SubScoreInputs(p), Defined)
    IN [i \in 1..Len(present) |-> SubScore(present[i])]

\* C14: overall_score is the mean of exactly the sub-scores present in the
\* payload; an absent sub-score is left out and a present one, also one of
\* value 0, is counted.
C14_OverallIsMeanOfPresent ==
    (/\ ByNormalizer
     /\ ~produced.r.threw
     /\ HasDetails(produced.r)
     /\ NumericSubScoreInputs(payload))
    => produced.r.manipulation_details.overall_score =
           (IF Len(PresentScores(payload)) = 0 THEN Num(0)
            ELSE MeanScore(PresentScores(payload)))

\* the `regions` field of the object the normalizer reads
RegionsInput(p) == IF ByMSParse THEN ResultData(p).regions ELSE p.result.f.regions

\* C15: when the payload holds an explicit regions array, the heatmap a
\* normalizer outputs holds exactly that array: the same regions in the
\* same order, coordinates and confidences unchanged.
C15_RegionsRoundTrip ==
    (/\ ByNormalizer
     /\ ~produced.r.threw
     /\ payload.kind = "object"
     /\ RegionsInput(payload).t = "array")
    => produced.r.heatmap_data.regions = RegionsInput(payload).a

\* C15 witness: MediaService normalized a payload with two explicit regions
\* and its heatmap holds the two, in the payload's order.
C15_Witness ==
    /\ ByMSParse /\ ~produced.r.threw
    /\ payload.kind = "object"
    /\ RegionsInput(payload).t = "array"
    /\ Len(RegionsInput(payload).a) = 2
    /\ RegionsInput(payload).a[1] # RegionsInput(payload).a[2]
    /\ produced.r.heatmap_data.regions = RegionsInput(payload).a

NoRegionsInput(p) == RegionsInput(p).t # "array"

\* C16: without explicit regions but with manipulation sub-scores, the
\* heatmap has exactly one region per sub-score present (face, background,
\* lighting, compression), of confidence 100 minus that sub-score.
C16_RegionPerSubScore ==
    (/\ ByNormalizer
     /\ ~produced.r.threw
     /\ payload.kind = "object"
     /\ NoRegionsInput(payload)
     /\ NumericSubScoreInputs(payload)
     /\ Len(PresentScores(payload)) > 0)
    => LET regions == produced.r.heatmap_data.regions
           inputs == SubScoreInputs(payload)
       IN /\ Len(regions) = Len(PresentScores(payload))
          /\ \A i \in 1..4 :
                Defined(inputs[i])
                => \E j \in DOMAIN regions :
                      regions[j].confidence \in {Minus100(inputs[i]), InvertedSubScore(inputs[i])}

\* C17: with neither explicit regions nor any manipulation sub-score, the
\* heatmap has exactly one region, is tagged synthetic and carries a
\* warning.
C17_SingleSyntheticRegion ==
    (/\ ByNormalizer
     /\ ~produced.r.threw
     /\ NoRegionsInput(payload)
     /\ Len(PresentScores(payload)) = 0)
    => LET hm == produced.r.heatmap_data
       IN /\ Len(hm.regions) = 1
          /\ "synthetic" \in DOMAIN hm /\ hm.synthetic = TRUE
          /\ "warning" \in DOMAIN hm


\* ---------------------------------------------------------------------------
\* The status column of media_files (part_008 line 10) over a file's life
\* ---------------------------------------------------------------------------

\* the position of a status in the lifecycle uploading, processing, then an end
StatusRank(status) ==
    CASE status = "uploading" -> 0
      [] status = "processing" -> 1
      [] status = "completed" -> 2
      [] status = "failed" -> 2
      [] OTHER -> 0

\* C18: a file's status only moves forward: a completed file stays completed,
\* a failed file stays failed, and no step lowers the position of the status
\* in the order uploading, processing, completed or failed.
C18_StatusMonotonic ==
    [][\A id \in DOMAIN media_files :
          /\ media_files[id].status = "completed" => media_files'[id].status = "completed"
          /\ media_files[id].status = "failed" => media_files'[id].status = "failed"
          /\ StatusRank(media_files'[id].status) >= StatusRank(media_files[id].status)]_vars

\* C19: once uploadFile has created the record, an upload that ends with an
\* exception leaves the record with status failed, never uploading.
C19_UploadFailureMarksFailed ==
    (pc = "up_thrown" /\ up.id \in DOMAIN media_files)
        => /\ media_files[up.id].status # "uploading"
           /\ media_files[up.id].status = "failed"


\* the insert of the analysis row (mediaService.ts 203-211) was refused
InsertFailed == an.error = "Analysis storage failed"

ResultRows(mediaFileId) ==
    {i \in DOMAIN analysis_results : analysis_results[i].media_file_id = mediaFileId}

\* C21: every media file has at most one analysis_results row.
C21_OneResultPerFile ==
    \A id \in DOMAIN media_files : Cardinality(ResultRows(id)) <= 1


\* ---------------------------------------------------------------------------
\* The upload page and its batch of files, in its three revisions:
\* part_003 (startProcessing / processFile), part_004 (uploadFiles) and
\* src/pages/Upload.tsx (handleFiles / simulateProcessing)
\* ---------------------------------------------------------------------------

MaxBatch == 2
Pages == {"part_003", "part_004", "Upload.tsx"}

\* part_003 160-165, Upload.tsx 67-72: a file as handleFiles queues it
QueuedUpload == [status |-> "queued", progress |-> 0, i |-> 0]
\* Upload.tsx 84-86: simulateProcessing runs up to its first await inside the
\* forEach of handleFiles, so the file is already shown as uploading
StartedUpload == [status |-> "uploading", progress |-> 0, i |-> 0]

RECURSIVE Repeat(_, _)
Repeat(x, n) == IF n = 0 THEN << >> ELSE Append(Repeat(x, n - 1), x)

BatchInit ==
    /\ page \in Pages
    /\ fileUploads = << >>
    /\ run = RunIdle

\* part_003 146-168, part_004 38-62, Upload.tsx 60-80: n valid files are added;
\* Upload.tsx starts simulateProcessing for each of them without awaiting it
handleFiles ==
    /\ run.stage = "idle"
    /\ \E n \in 1..MaxBatch :
          /\ Len(fileUploads) + n <= MaxBatch
          /\ fileUploads' = fileUploads \o Repeat(IF page = "Upload.tsx" THEN StartedUpload
                                                                      ELSE QueuedUpload, n)
    /\ UNCHANGED <<page, run>>
    /\ UNCHANGED <<nvars, pvars, ed>>

\* part_003 240-258: the for loop over the queued files, each awaited
startProcessing ==
    /\ page = "part_003"
    /\ run.stage = "idle"
    /\ Len(fileUploads) > 0
    /\ run' = [at |-> 1, stage |-> "upload"]
    /\ UNCHANGED <<page, fileUploads>>
    /\ UNCHANGED <<nvars, pvars, ed>>

\* part_004 74-82: the for loop over the files inside one try block
uploadFiles ==
    /\ page = "part_004"
    /\ run.stage = "idle"
    /\ Len(fileUploads) > 0
    /\ run' = [at |-> 1, stage |-> "upload"]
    /\ UNCHANGED <<page, fileUploads>>
    /\ UNCHANGED <<nvars, pvars, ed>>

\* the loop goes on to the next file, or ends
NextFile(at) ==
    IF at < Len(fileUploads) THEN [at |-> at + 1, stage |-> "upload"]
                             ELSE [at |-> at, stage |-> "finished"]

\* an exception of uploadFile or analyzeFile: part_003 226-232 marks the file
\* failed and its loop goes on; part_004 121-127 leaves the loop
CaughtFiles(at) ==
    IF page = "part_003" THEN [fileUploads EXCEPT ![at].status = "failed"] ELSE fileUploads
CaughtRun(at) ==
    IF page = "part_003" THEN NextFile(at) ELSE [at |-> at, stage |-> "finished"]

\* part_003 184-195, part_004 85-90: uploadFile reports progress (status
\* uploading), or throws before it does
processFileUploading ==
    /\ run.stage = "upload"
    /\ \E ok \in BOOLEAN :
          IF ok
          THEN /\ fileUploads' = [fileUploads EXCEPT ![run.at].status = "uploading",
                                                     ![run.at].progress = 100]
               /\ run' = [run EXCEPT !.stage = "uploading"]
          ELSE /\ fileUploads' = CaughtFiles(run.at)
               /\ run' = CaughtRun(run.at)
    /\ UNCHANGED page
    /\ UNCHANGED <<nvars, pvars, ed>>

\* part_003 197-201, part_004 92-98: uploadFile returns and the page shows the
\* file as processing, or uploadFile throws
processFileUploaded ==
    /\ run.stage = "uploading"
    /\ \E ok \in BOOLEAN :
          IF ok
          THEN /\ fileUploads' = [fileUploads EXCEPT ![run.at].status = "processing"]
               /\ run' = [run EXCEPT !.stage = "analyze"]
          ELSE /\ fileUploads' = CaughtFiles(run.at)
               /\ run' = CaughtRun(run.at)
    /\ UNCHANGED page
    /\ UNCHANGED <<nvars, pvars, ed>>

\* part_003 203-217, part_004 100-105: analyzeFile returns and the file is
\* shown as completed, or analyzeFile throws
processFileAnalyzed ==
    /\ run.stage = "analyze"
    /\ \E ok \in BOOLEAN :
          IF ok
          THEN /\ fileUploads' = [fileUploads EXCEPT ![run.at].status = "completed"]
               /\ run' = NextFile(run.at)
          ELSE /\ fileUploads' = CaughtFiles(run.at)
               /\ run' = CaughtRun(run.at)
    /\ UNCHANGED page
    /\ UNCHANGED <<nvars, pvars, ed>>

\* Upload.tsx 88-98: one timer of the uploading phase of one file fires; after
\* the step of i = 100 the same run of the callback shows the file as processing
simulateUploading ==
    /\ page = "Upload.tsx"
    /\ \E k \in DOMAIN fileUploads :
          /\ fileUploads[k].status = "uploading"
          /\ fileUploads' =
                [fileUploads EXCEPT ![k] =
                    IF @.i < 100 THEN [status |-> @.status, progress |-> @.i, i |-> @.i + 10]
                                 ELSE [status |-> "processing", progress |-> 0, i |-> 0]]
    /\ UNCHANGED <<page, run>>
    /\ UNCHANGED <<nvars, pvars, ed>>

\* Upload.tsx 100-121: one timer of the processing phase of one file fires;
\* after the step of i = 100 the file is shown as completed
simulateAnalysing ==
    /\ page = "Upload.tsx"
    /\ \E k \in DOMAIN fileUploads :
          /\ fileUploads[k].status = "processing"
          /\ fileUploads' =
                [fileUploads EXCEPT ![k] =
                    IF @.i < 100 THEN [status |-> @.status, progress |-> @.i, i |-> @.i + 20]
                                 ELSE [status |-> "completed", progress |-> 100, i |-> 0]]
    /\ UNCHANGED <<page, run>>
    /\ UNCHANGED <<nvars, pvars, ed>>

BatchNext ==
    \/ handleFiles
    \/ startProcessing
    \/ uploadFiles
    \/ processFileUploading
    \/ processFileUploaded
    \/ processFileAnalyzed
    \/ simulateUploading
    \/ simulateAnalysing

\* the upload page alone; the pipeline and the normalizers are at rest
SpecBatchInit ==
    /\ BatchInit
    /\ PipelineInit
    /\ envKey = ""
    /\ payload = PrimitivePayload("undefined")
    /\ failure = NoFailure
    /\ produced = NoResult

SpecBatch == SpecBatchInit /\ [][BatchNext]_vars

\* the files of the batch whose pipeline is running
InFlight == {k \in DOMAIN fileUploads : fileUploads[k].status \in {"uploading", "processing"}}

\* C22: in every revision of the upload page at most one file of the batch is
\* in status uploading or processing at any time, and a file is not started
\* while an earlier one is still queued.
C22_OneFileAtATime ==
    /\ Cardinality(InFlight) <= 1
    /\ \A j, k \in DOMAIN fileUploads :
          (j < k /\ fileUploads[j].status = "queued") => fileUploads[k].status = "queued"


\* a result made by one of the fallback generators
ByFallback ==
    produced.by \in {"MediaService.createDefaultResult", "MediaService.getFallbackAnalysis",
                     "edge.generateFallbackAnalysis", "edge.v1.generateFallbackAnalysis"}

\* C24: for every triggering failure, the verdict of a fallback result made
\* by createDefaultResult, getFallbackAnalysis or either revision of the edge
\* function's generateFallbackAnalysis is never deepfake.
C24_FallbackNeverDeepfake ==
    ByFallback => produced.r.classification # "deepfake"


\* ---------------------------------------------------------------------------
\* The polling loop of performRealityDefenderDetection
\* ---------------------------------------------------------------------------

\* every poll of the budget was answered and none reported completion
PollingExhausted ==
    /\ DetectionEnded
    /\ an.net.poll = maxAttempts
    /\ ~an.completed
    /\ an.timeouts = 0

\* mediaService.ts 367 and 396: the messages the code has for an exhausted budget
ExhaustionMessages == {"Failed to get results after 10 attempts", "Incomplete analysis results"}

\* C23: when the polling budget is exhausted without the provider having
\* reported completion, performRealityDefenderDetection returns the fallback
\* result (suspicious, 50) carrying the message of the exhaustion, whether
\* the last poll response was non-OK or OK but not complete.
C23_ExhaustionYieldsFallback ==
    (PollingExhausted /\ pc = "an_store")
    => /\ "error" \in DOMAIN an.result
       /\ an.result.error \in ExhaustionMessages
       /\ an.result = createDefaultResult("suspicious", Num(Unit \div 2), an.result.error)


\* ---------------------------------------------------------------------------
\* uploadFile when the storage bucket is unavailable
\* ---------------------------------------------------------------------------

\* the storage upload of the running uploadFile call returned an error or threw
StorageFailed == UploadInFlight /\ up.publicUrl = "fallback"

\* C25: when the storage upload fails, uploadFile goes on: it throws only for
\* a refused database request, the media_files row it inserts has the
\* fallback URL as file_url, and when it returns the row has status completed.
C25_StorageFallback ==
    StorageFailed
    => /\ pc = "up_thrown" => up.error \in {"Database error", "Update error"}
       /\ pc \in {"up_progress", "up_final", "up_returned"}
             => /\ up.id \in DOMAIN media_files
                /\ media_files[up.id].file_url = "fallback"
       /\ pc = "up_returned" => media_files[up.id].status = "completed"

\* C25 witness: a valid file was uploaded while the storage bucket failed, and
\* uploadFile returned with a completed row pointing to the fallback URL.
C25_Witness ==
    /\ pc = "up_returned"
    /\ up.publicUrl = "fallback"
    /\ up.net.storage = 1
    /\ media_files[up.id].file_url = "fallback"
    /\ media_files[up.id].status = "completed"


\* ---------------------------------------------------------------------------
\* The threshold table analyzeFile stores in analysis_metadata
\* ---------------------------------------------------------------------------

\* the classification a threshold table gives a confidence score: the first
\* of authentic, suspicious, deepfake whose lower bound the score reaches
TableClassification(thresholds, c) ==
    IF AtLeast(c, thresholds.authentic) THEN "authentic"
    ELSE IF AtLeast(c, thresholds.suspicious) THEN "suspicious"
    ELSE "deepfake"

\* the row analyzeFile builds (mediaService.ts 185-201) for a result of
\* parseRealityDefenderResponse, completed with a processing time as in
\* processRealityDefenderResults (lines 411-417)
ParsedRow ==
    AnalysisData(1, [confidence_score |-> produced.r.confidence_score,
                     classification |-> produced.r.classification,
                     heatmap_data |-> produced.r.heatmap_data,
                     manipulation_details |-> produced.r.manipulation_details,
                     processing_time_ms |-> 0])

StagesInOrder ==
    /\ up.net.storage <= 1 /\ an.net.file <= 1 /\ an.net.signedUrl <= 1 /\ an.net.put <= 1
    /\ up.net.storage > 0 => validateFile(up.file).isValid /\ up.net.auth > 0
    /\ up.id # 0 => up.net.storage = 1
    /\ an.net.signedUrl > 0 => an.net.file = 1 /\ an.found
    /\ an.net.put > 0 => an.net.signedUrl = 1
    /\ an.net.poll > 0 => an.net.put = 1
    /\ an.stored # NoDetection => an.result # NoDetection
    /\ pc = "an_returned" => an.stored # NoDetection

\* C27: the stages of one file are taken in order and once each, no PUT is
\* issued unless an upload target and a media id were obtained, and no poll
\* unless the PUT succeeded.
C27_StagesOrdered ==
    /\ StagesInOrder
    /\ an.net.put > 0 => an.mediaId
    /\ an.net.poll > 0 => an.mediaId


\* ---------------------------------------------------------------------------
\* The end of the polling loop and of analyzeFile
\* ---------------------------------------------------------------------------

\* C29: when a poll response reported completion, the value
\* performRealityDefenderDetection returns to analyzeFile is the output of
\* parseRealityDefenderResponse for that response with a processing time,
\* never the createDefaultResult fallback.
C29_CompletionIsParsed ==
    (an.completed /\ pc = "an_store")
    => LET parsed == parseRealityDefenderResponse(an.terminal) IN
       /\ ~parsed.threw
       /\ "error" \notin DOMAIN an.result
       /\ an.result.confidence_score = parsed.confidence_score
       /\ an.result.classification = parsed.classification
       /\ an.result.heatmap_data = parsed.heatmap_data

\* C30: a finished analyzeFile call leaves the media file in status completed
\* or failed, never processing, and it returned a stored result only if the
\* status is completed, also when a status update or the lookup failed.
C30_EndsCompletedOrFailed ==
    AnalyzeEnded
    => /\ media_files[an.id].status \in {"completed", "failed"}
       /\ pc = "an_returned" => media_files[an.id].status = "completed"


\* ---------------------------------------------------------------------------
\* The polling budgets of the two detector clients
\* ---------------------------------------------------------------------------

\* the waits a client has made when it has issued n polls: one per gap
\* between polls, and one more while a further poll is due
WaitsFor(n, pollDue) == IF pollDue THEN n ELSE IF n = 0 THEN 0 ELSE n - 1

\* C28: MediaService issues at most 10 poll requests and the edge function at
\* most 15, a wait of 2000 ms lies between consecutive polls (the edge
\* function waits once more before its first poll), and neither polls again
\* after a response that reported completion.
C28_PollingBounded ==
    /\ an.net.poll <= 10
    /\ an.slept = 2000 * WaitsFor(an.net.poll, pc = "det_poll")
    /\ an.completed => pc # "det_poll"
    /\ ed.net.poll <= 15
    /\ ed.slept = IF ed.net.put = 1 /\ (pc = "edge_poll" \/ ed.net.poll > 0)
                  THEN 2000 * (1 + WaitsFor(ed.net.poll, pc = "edge_poll"))
                  ELSE 0
    /\ ed.completed => pc # "edge_poll"

\* C28 witness: the provider reported completion at the tenth poll of
\* MediaService, after nine waits, and the polling stopped.
C28_Witness ==
    /\ pc = "an_store"
    /\ an.net.poll = 10
    /\ an.slept = 18000
    /\ an.completed

====
